---- MODULE Spec2Model ----
(***************************************************************************)
(* Mentor/mentee matching and the mentorship request lifecycle of the      *)
(* career-networking backend (backend/routes/mentorship_routes.py and      *)
(* backend/routes/user_routes.py), as a state machine over the document    *)
(* store.                                                                  *)
(*                                                                         *)
(* Conventions                                                             *)
(*  - An Optional[...] value is a sequence of length 0 (None, or a key the *)
(*    document does not have) or 1 (the value).                            *)
(*  - A Python str that is inspected character by character (location) is  *)
(*    a sequence of one-character strings.                                 *)
(*  - A Python List[str] is a sequence; set(...) is SetOf.                 *)
(*  - A compatibility score is an exact rational: the integer s stands for *)
(*    s / Unit on the 0..100 scale of the return value.  IEEE-754 rounding *)
(*    of the float operations is not modelled.                             *)
(*  - uuid4() ids are modelled as the position of the insert: fresh and    *)
(*    never reused.                                                        *)
(***************************************************************************)
EXTENDS Integers, Sequences, FiniteSets, TLC

VARIABLES users, requests, result,
          coding_questions, interview_prep_profiles, code_submissions, uuids, now,
          tasks, connected_clients, handlers

\* db.coding_questions, db.interview_prep_profiles, db.code_submissions, the
\* number of question ids uuid4() has issued, and the clock
prepVars == <<coding_questions, interview_prep_profiles, code_submissions, uuids, now>>

\* The calls of get_company_questions and submit_code_solution that are
\* suspended at an await, with their local variables; chat_routes'
\* connected_clients for one room; the websocket_chat coroutine of each client
liveVars == <<tasks, connected_clients, handlers>>

vars == <<users, requests, result, prepVars, liveVars>>

----------------------------------------------------------------------------
(* Bounds of the model *)

MaxSkills == 2        \* longest skill list drawn as an input
MaxYears == 6         \* largest years_experience drawn as an input
MaxUsers == 2         \* users in the store (Spec)
MaxRequests == 1      \* mentorship requests in the store (Spec)
MatchUsers == 2       \* users in the store (SpecMatch)
RankUsers == 7        \* users in the store (SpecRank)
MaxUuids == 11        \* question ids issued (SpecQuestions)
MaxTime == 10         \* last value of the clock (SpecQuestions)
MaxStr == 3           \* longest generated output string (SpecGrade)
MaxSubmissions == 2   \* submissions in the store (SpecSubmit)
MaxSolvedIds == 55    \* question ids handed out (SpecReadiness)
MaxFailed == 1        \* failed submissions (SpecReadiness)
MaxCompanyIds == 6    \* question ids handed out (SpecCompany)
MaxRaceIds == 10      \* question ids handed out (SpecFetch)
MaxCalls == 11        \* overlapping calls of get_company_questions (SpecFlood)
MaxClients == 2       \* websocket clients of the room (SpecChat)

(* Program constants *)

TopK == 5             \* matches[:5]
FetchLimit == 100     \* .to_list(100)

----------------------------------------------------------------------------
(* Generic helpers *)

None == <<>>
Some(x) == <<x>>
IsNone(o) == Len(o) = 0
Get(o) == o[1]

SetOf(list) == {list[i] : i \in 1..Len(list)}

Max(a, b) == IF a >= b THEN a ELSE b
Min(a, b) == IF a <= b THEN a ELSE b

RECURSIVE Gcd(_, _)
Gcd(a, b) == IF b = 0 THEN a ELSE Gcd(b, a % b)

RECURSIVE LcmUpTo(_)
LcmUpTo(n) == IF n <= 1 THEN 1 ELSE (LcmUpTo(n - 1) * n) \div Gcd(LcmUpTo(n - 1), n)

\* One score point (1.0 on the 0..100 scale) in model units: every quotient
\* overlap / len with len <= MaxSkills, and every hundredth, is an integer.
Unit == 100 * LcmUpTo(MaxSkills)

----------------------------------------------------------------------------
(* str.lower() and truthiness *)

UpperLetters == <<"A","B","C","D","E","F","G","H","I","J","K","L","M",
                  "N","O","P","Q","R","S","T","U","V","W","X","Y","Z">>
LowerLetters == <<"a","b","c","d","e","f","g","h","i","j","k","l","m",
                  "n","o","p","q","r","s","t","u","v","w","x","y","z">>

LowerChar(c) ==
    IF \E i \in 1..26 : UpperLetters[i] = c
    THEN LowerLetters[CHOOSE i \in 1..26 : UpperLetters[i] = c]
    ELSE c

Lower(s) == [i \in 1..Len(s) |-> LowerChar(s[i])]

\* `if mentor.get('location')`: None and "" are both falsy
Truthy(optstr) == ~IsNone(optstr) /\ Len(Get(optstr)) > 0

Austin == <<"A","u","s","t","i","n">>
austin == <<"a","u","s","t","i","n">>
Boston == <<"B","o","s","t","o","n">>

----------------------------------------------------------------------------
(* Documents *)

\* MentorProfile().model_dump(): the fields the matching code reads
MentorProfile(avail, expertise, years) ==
    [is_available |-> avail, expertise |-> expertise, years_experience |-> years]

DefaultMentorProfile == MentorProfile(TRUE, <<>>, 0)

\* MenteeProfile().model_dump()
MenteeProfile(stl) == [skills_to_learn |-> stl]

DefaultMenteeProfile == MenteeProfile(<<>>)

UserDoc(id, email, uid, role, skills, location, mp, ep, conns) ==
    [id |-> id, email |-> email, firebase_uid |-> uid, role |-> role,
     skills |-> skills, location |-> location,
     mentor_profile |-> mp, mentee_profile |-> ep, connections |-> conns,
     target_companies |-> <<>>]

----------------------------------------------------------------------------
(* calculate_compatibility *)

Overlap(a, b) == Cardinality(SetOf(a) \cap SetOf(b))

\* (overlap / max(len(s), 1)) * weight, on the 0..100 scale, in model units
Term(a, b, weight) ==
    IF SetOf(a) # {} /\ SetOf(b) # {}
    THEN (weight * Overlap(a, b) * Unit) \div Max(Cardinality(SetOf(b)), 1)
    ELSE 0

\* Mutant: the tier boundaries taken as strict (> 5, > 3)
ExperienceBonus_strict(years_exp) ==
    IF years_exp > 5 THEN 20 * Unit
    ELSE IF years_exp > 3 THEN 10 * Unit
    ELSE 0

ExperienceBonus(years_exp) ==
    IF years_exp >= 5 THEN 20 * Unit
    ELSE IF years_exp >= 3 THEN 10 * Unit
    ELSE 0

LocationBonus(mentor, mentee) ==
    IF Truthy(mentor.location) /\ Truthy(mentee.location)
    THEN IF Lower(Get(mentor.location)) = Lower(Get(mentee.location))
         THEN 15 * Unit ELSE 0
    ELSE 0

Returned(score) == [exc |-> "none", score |-> score]
Raised(e) == [exc |-> e, score |-> 0]

\* Mutant: the overlap counted over the list entries (no set(...)) and the sum
\* returned without min(..., 100)
calculate_compatibility_uncapped(mentor, mentee) ==
    IF IsNone(mentor.mentor_profile) \/ IsNone(mentee.mentee_profile)
    THEN Raised("AttributeError")
    ELSE LET mentor_profile == Get(mentor.mentor_profile)
             mentee_profile == Get(mentee.mentee_profile)
             Count(a, b) == Cardinality({i \in 1..Len(a) : a[i] \in SetOf(b)})
             ListTerm(a, b, weight) ==
                 IF Len(a) > 0 /\ Len(b) > 0
                 THEN (weight * Count(a, b) * Unit) \div Max(Cardinality(SetOf(b)), 1)
                 ELSE 0
             score == ListTerm(mentor_profile.expertise, mentee_profile.skills_to_learn, 40)
                      + ListTerm(mentor.skills, mentee.skills, 25)
                      + ExperienceBonus(mentor_profile.years_experience)
                      + LocationBonus(mentor, mentee)
         IN Returned(score)

calculate_compatibility(mentor, mentee) ==
    IF IsNone(mentor.mentor_profile) \/ IsNone(mentee.mentee_profile)
    THEN Raised("AttributeError")   \* None.get(...)
    ELSE LET mentor_profile == Get(mentor.mentor_profile)
             mentee_profile == Get(mentee.mentee_profile)
             score == Term(mentor_profile.expertise, mentee_profile.skills_to_learn, 40)
                      + Term(mentor.skills, mentee.skills, 25)
                      + ExperienceBonus(mentor_profile.years_experience)
                      + LocationBonus(mentor, mentee)
         IN Returned(Min(score, 100 * Unit))

----------------------------------------------------------------------------
(* The last response of a handler *)

\* The last call and its response.  op: the handler; arg, arg2, status: the
\* ids and the status it was called with (0 and "" when it has none); code:
\* the HTTP status (500 for an exception no handler catches); matches, score:
\* the payload.
Response(op, arg, arg2, status, code, matches, score) ==
    [op |-> op, arg |-> arg, arg2 |-> arg2, status |-> status, code |-> code,
     matches |-> matches, score |-> score]

NoResponse == Response("none", 0, 0, "", 0, <<>>, 0)

----------------------------------------------------------------------------
(* The document store: db.users and db.mentorship_requests, in insertion    *)
(* order (the order find() returns)                                         *)

\* find_one: the index of the first document among those at `indexes`, 0 for None
First(indexes) ==
    IF indexes = {} THEN 0 ELSE CHOOSE i \in indexes : \A j \in indexes : i <= j

\* find_one({"id": id})
FindById(docs, id) == First({i \in 1..Len(docs) : docs[i].id = id})

\* find_one({"email": email})
FindByEmail(docs, email) == First({i \in 1..Len(docs) : docs[i].email = email})

\* find_one({"firebase_uid": firebase_uid}): a document without the key does not match
FindByUid(docs, firebase_uid) ==
    First({i \in 1..Len(docs) : docs[i].firebase_uid = Some(firebase_uid)})

Take(list, n) == SubSeq(list, 1, Min(n, Len(list)))

\* Mutant: a plain list append ($push)
AppendAlways(list, x) == Append(list, x)

\* $addToSet
AddToSet(list, x) == IF x \in SetOf(list) THEN list ELSE Append(list, x)

----------------------------------------------------------------------------
(* user_routes.py *)

\* User(**user_input.model_dump()) with the default profiles of its role:
\* location is "", a profile the role does not need stays None
NewUser(id, email, role) ==
    UserDoc(id, email, None, role, <<>>, Some(<<>>),
            IF role \in {"mentor", "both"} THEN Some(DefaultMentorProfile) ELSE None,
            IF role \in {"student", "both"} THEN Some(DefaultMenteeProfile) ELSE None,
            <<>>)

\* POST /users
create_user(email, role) ==
    IF FindByEmail(users, email) # 0
    THEN /\ result' = Response("create_user", 0, 0, "", 400, <<>>, 0)
         /\ UNCHANGED <<users, requests>>
    ELSE /\ users' = Append(users, NewUser(Len(users) + 1, email, role))
         /\ result' = Response("create_user", Len(users) + 1, 0, "", 200, <<>>, 0)
         /\ UNCHANGED requests

\* new_user of firebase_sync: both default profiles whatever the role, no
\* location key
FirebaseUser(id, firebase_uid, email, role) ==
    UserDoc(id, email, Some(firebase_uid), role, <<>>, None,
            Some(DefaultMentorProfile), Some(DefaultMenteeProfile), <<>>)

\* POST /users/firebase-sync; user_data: firebase_uid, email, role (optional keys)
firebase_sync(user_data) ==
    LET firebase_uid == user_data.firebase_uid
        email == user_data.email
        role == IF IsNone(user_data.role) THEN "student" ELSE Get(user_data.role)
        existing == IF IsNone(firebase_uid) THEN 0 ELSE FindByUid(users, Get(firebase_uid))
        existing_email == IF IsNone(email) THEN 0 ELSE FindByEmail(users, Get(email))
    IN IF IsNone(firebase_uid) \/ IsNone(email)
       THEN /\ result' = Response("firebase_sync", 0, 0, "", 400, <<>>, 0)
            /\ UNCHANGED <<users, requests>>
       ELSE IF existing # 0
       THEN /\ result' = Response("firebase_sync", users[existing].id, 0, "", 200, <<>>, 0)
            /\ UNCHANGED <<users, requests>>
       ELSE IF existing_email # 0
       THEN /\ users' = [users EXCEPT ![existing_email].firebase_uid = firebase_uid]
            /\ result' = Response("firebase_sync", users[existing_email].id, 0, "",
                                  200, <<>>, 0)
            /\ UNCHANGED requests
       ELSE /\ users' = Append(users, FirebaseUser(Len(users) + 1, Get(firebase_uid),
                                                    Get(email), role))
            /\ result' = Response("firebase_sync", Len(users) + 1, 0, "", 200, <<>>, 0)
            /\ UNCHANGED requests

\* UserUpdate: the fields the matching code reads, each Optional
UserUpdate(skills, location, mp, ep) ==
    [skills |-> skills, location |-> location, mentor_profile |-> mp, mentee_profile |-> ep]

\* {"$set": update_dict} with update_dict the fields that are not None
SetFields(user, update_data) ==
    [user EXCEPT
        !.skills = IF IsNone(update_data.skills) THEN @ ELSE Get(update_data.skills),
        !.location = IF IsNone(update_data.location) THEN @ ELSE update_data.location,
        !.mentor_profile = IF IsNone(update_data.mentor_profile) THEN @
                           ELSE update_data.mentor_profile,
        !.mentee_profile = IF IsNone(update_data.mentee_profile) THEN @
                           ELSE update_data.mentee_profile]

\* PUT /users/{user_id}
update_user(user_id, update_data) ==
    LET user == FindById(users, user_id)
    IN IF user = 0
       THEN /\ result' = Response("update_user", user_id, 0, "", 404, <<>>, 0)
            /\ UNCHANGED <<users, requests>>
       ELSE /\ users' = [users EXCEPT ![user] = SetFields(@, update_data)]
            /\ result' = Response("update_user", user_id, 0, "", 200, <<>>, 0)
            /\ UNCHANGED requests

----------------------------------------------------------------------------
(* mentorship_routes.py *)

\* round(score, 2): to the nearest hundredth, a tie to the even hundredth
Round2(score) ==
    LET q == Unit \div 100
        r == score % q
        down == score - r
    IN IF 2 * r < q THEN down
       ELSE IF 2 * r > q THEN down + q
       ELSE IF (down \div q) % 2 = 0 THEN down ELSE down + q

\* Mutant: reverse=True dropped, the list sorted ascending
RECURSIVE InsertAscending(_, _)
InsertAscending(m, sorted) ==
    IF sorted = <<>> THEN <<m>>
    ELSE IF Head(sorted).compatibility_score < m.compatibility_score
    THEN <<Head(sorted)>> \o InsertAscending(m, Tail(sorted))
    ELSE <<m>> \o sorted

\* Mutant: a descending sort that puts m after the entries of equal score
RECURSIVE InsertDescending_unstable(_, _)
InsertDescending_unstable(m, sorted) ==
    IF sorted = <<>> THEN <<m>>
    ELSE IF Head(sorted).compatibility_score >= m.compatibility_score
    THEN <<Head(sorted)>> \o InsertDescending_unstable(m, Tail(sorted))
    ELSE <<m>> \o sorted

\* One insertion of list.sort(key=score, reverse=True): m goes after the
\* entries with a strictly greater score and before every other one (the
\* entries already placed followed m in the input: the sort is stable)
RECURSIVE InsertDescending(_, _)
InsertDescending(m, sorted) ==
    IF sorted = <<>> THEN <<m>>
    ELSE IF Head(sorted).compatibility_score > m.compatibility_score
    THEN <<Head(sorted)>> \o InsertDescending(m, Tail(sorted))
    ELSE <<m>> \o sorted

RECURSIVE SortDescending(_)
SortDescending(matches) ==
    IF matches = <<>> THEN <<>>
    ELSE InsertDescending(Head(matches), SortDescending(Tail(matches)))

\* Mutant: the role not part of the query
IsEligibleMentor_anyRole(u, user_id) ==
    /\ ~IsNone(u.mentor_profile)
    /\ Get(u.mentor_profile).is_available = TRUE
    /\ u.id # user_id

\* The filter of db.users.find in get_mentor_matches
IsEligibleMentor(u, user_id) ==
    /\ u.role \in {"mentor", "both"}
    /\ ~IsNone(u.mentor_profile)
    /\ Get(u.mentor_profile).is_available = TRUE
    /\ u.id # user_id

\* db.users.find(filter): the matching documents in store order
RECURSIVE EligibleMentors(_, _)
EligibleMentors(docs, user_id) ==
    IF docs = <<>> THEN <<>>
    ELSE IF IsEligibleMentor(Head(docs), user_id)
    THEN <<Head(docs)>> \o EligibleMentors(Tail(docs), user_id)
    ELSE EligibleMentors(Tail(docs), user_id)

\* matches[:5]
Truncate(matches) == Take(matches, TopK)

\* The loop over mentors: one entry per mentor, in fetch order
RECURSIVE ScoreMentors(_, _)
ScoreMentors(mentors, mentee) ==
    IF mentors = <<>> THEN <<>>
    ELSE << [mentor |-> Head(mentors),
             compatibility_score |->
                 Round2(calculate_compatibility(Head(mentors), mentee).score)] >>
         \o ScoreMentors(Tail(mentors), mentee)

\* The loop raises when a call of calculate_compatibility does
ScoringRaises(mentors, mentee) ==
    \E i \in 1..Len(mentors) : calculate_compatibility(mentors[i], mentee).exc # "none"

\* The body of get_mentor_matches once the mentee and the mentors are fetched
RankMentors(user_id, mentee, mentors) ==
    IF ScoringRaises(mentors, mentee)
    THEN Response("get_mentor_matches", user_id, 0, "", 500, <<>>, 0)
    ELSE Response("get_mentor_matches", user_id, 0, "", 200,
                  Truncate(SortDescending(ScoreMentors(mentors, mentee))), 0)

\* GET /mentorship/matches/{user_id}
get_mentor_matches(user_id) ==
    /\ UNCHANGED <<users, requests>>
    /\ IF FindById(users, user_id) = 0
       THEN result' = Response("get_mentor_matches", user_id, 0, "", 404, <<>>, 0)
       ELSE result' = RankMentors(user_id, users[FindById(users, user_id)],
                                  Take(EligibleMentors(users, user_id), FetchLimit))

\* MentorshipRequest(**request_dict, compatibility_score=score).model_dump()
MentorshipRequest(id, mentor_id, mentee_id, message, score) ==
    [id |-> id, mentor_id |-> mentor_id, mentee_id |-> mentee_id, status |-> "pending",
     message |-> message, compatibility_score |-> score]

\* Mutant: only the mentor is checked; a missing mentee reaches the scorer as None
create_mentorship_request_mentorOnly(mentor_id, mentee_id, message) ==
    LET mentor == FindById(users, mentor_id)
        mentee == FindById(users, mentee_id)
    IN IF mentor = 0
       THEN /\ result' = Response("create_mentorship_request", mentor_id, mentee_id, "",
                                  404, <<>>, 0)
            /\ UNCHANGED <<users, requests>>
       ELSE IF mentee = 0
       THEN /\ result' = Response("create_mentorship_request", mentor_id, mentee_id, "",
                                  500, <<>>, 0)
            /\ UNCHANGED <<users, requests>>
       ELSE LET r == calculate_compatibility(users[mentor], users[mentee])
                id == Len(requests) + 1
            IN IF r.exc # "none"
               THEN /\ result' = Response("create_mentorship_request", mentor_id, mentee_id,
                                          "", 500, <<>>, 0)
                    /\ UNCHANGED <<users, requests>>
               ELSE /\ requests' = Append(requests,
                          MentorshipRequest(id, mentor_id, mentee_id, message, r.score))
                    /\ result' = Response("create_mentorship_request", mentor_id, mentee_id,
                                          "", 200, <<>>, r.score)
                    /\ UNCHANGED users

\* POST /mentorship/request
create_mentorship_request(mentor_id, mentee_id, message) ==
    LET mentor == FindById(users, mentor_id)
        mentee == FindById(users, mentee_id)
    IN IF mentor = 0 \/ mentee = 0
       THEN /\ result' = Response("create_mentorship_request", mentor_id, mentee_id, "",
                                  404, <<>>, 0)
            /\ UNCHANGED <<users, requests>>
       ELSE LET r == calculate_compatibility(users[mentor], users[mentee])
                id == Len(requests) + 1
            IN IF r.exc # "none"
               THEN /\ result' = Response("create_mentorship_request", mentor_id, mentee_id,
                                          "", 500, <<>>, 0)
                    /\ UNCHANGED <<users, requests>>
               ELSE /\ requests' = Append(requests,
                          MentorshipRequest(id, mentor_id, mentee_id, message, r.score))
                    /\ result' = Response("create_mentorship_request", mentor_id, mentee_id,
                                          "", 200, <<>>, r.score)
                    /\ UNCHANGED users

\* Mutant: the document replaced by a fresh MentorshipRequest with the new
\* status, compatibility_score back at its default 0.0
SetStatus_replace(request_doc, status) ==
    [request_doc EXCEPT !.status = status, !.compatibility_score = 0]

\* {"$set": {"status": response.status}}
SetStatus(request_doc, status) == [request_doc EXCEPT !.status = status]

\* The two $addToSet updates of an acceptance, each on the user with that id
Connect(docs, mentor_id, mentee_id) ==
    LET one == [i \in 1..Len(docs) |->
                   IF i = FindById(docs, mentor_id)
                   THEN [docs[i] EXCEPT !.connections = AddToSet(@, mentee_id)]
                   ELSE docs[i]]
    IN [i \in 1..Len(one) |->
           IF i = FindById(one, mentee_id)
           THEN [one[i] EXCEPT !.connections = AddToSet(@, mentor_id)]
           ELSE one[i]]

\* Mutant: the two $addToSet updates run whatever the status is
respond_to_mentorship_request_alwaysConnect(request_id, status) ==
    LET request_doc == FindById(requests, request_id)
    IN IF request_doc = 0
       THEN /\ result' = Response("respond_to_mentorship_request", request_id, 0, status,
                                  404, <<>>, 0)
            /\ UNCHANGED <<users, requests>>
       ELSE /\ requests' = [requests EXCEPT ![request_doc] = SetStatus(@, status)]
            /\ users' = Connect(users, requests[request_doc].mentor_id,
                                requests[request_doc].mentee_id)
            /\ result' = Response("respond_to_mentorship_request", request_id, 0, status,
                                  200, <<>>, 0)

\* PUT /mentorship/{request_id}/respond
respond_to_mentorship_request(request_id, status) ==
    LET request_doc == FindById(requests, request_id)
    IN IF request_doc = 0
       THEN /\ result' = Response("respond_to_mentorship_request", request_id, 0, status,
                                  404, <<>>, 0)
            /\ UNCHANGED <<users, requests>>
       ELSE /\ requests' = [requests EXCEPT ![request_doc] = SetStatus(@, status)]
            /\ users' = IF status = "accepted"
                        THEN Connect(users, requests[request_doc].mentor_id,
                                     requests[request_doc].mentee_id)
                        ELSE users
            /\ result' = Response("respond_to_mentorship_request", request_id, 0, status,
                                  200, <<>>, 0)

----------------------------------------------------------------------------
(* Time.  A time is a number of half-days, doubled, plus 1 when its         *)
(* microsecond part is not zero; datetime.isoformat() writes the day, the   *)
(* hour and, only when it is not zero, the fraction, then the UTC offset.   *)

\* timedelta(days=1)
Day == 4

Digits == <<"0", "1", "2", "3", "4", "5", "6", "7", "8", "9">>

\* datetime.isoformat()
IsoFormat(t) ==
    LET day == t \div Day
        hour == 12 * ((t \div 2) % 2)
    IN <<Digits[(day \div 10) + 1], Digits[(day % 10) + 1], "T",
         Digits[(hour \div 10) + 1], Digits[(hour % 10) + 1]>>
       \o (IF t % 2 = 0 THEN <<"+">> ELSE <<".", "5", "+">>)

\* The characters of a timestamp in code point order
CodePoints == <<"+", ".", "0", "1", "2", "3", "4", "5", "6", "7", "8", "9", "T">>

CodePoint(c) == CHOOSE i \in 1..Len(CodePoints) : CodePoints[i] = c

\* a < b for strings, as the store compares them: code point by code point,
\* a proper prefix first
RECURSIVE StrLess(_, _)
StrLess(a, b) ==
    IF b = <<>> THEN FALSE
    ELSE IF a = <<>> THEN TRUE
    ELSE IF Head(a) = Head(b) THEN StrLess(Tail(a), Tail(b))
    ELSE CodePoint(Head(a)) < CodePoint(Head(b))

\* {"$gte": b} on a string field
StrGte(a, b) == ~StrLess(a, b)

----------------------------------------------------------------------------
(* utils/ai_helpers.py *)

\* One test case of a question; the strings are sequences of characters
TestCase(input, expected_output) == [input |-> input, expected_output |-> expected_output]

\* One element of the generated JSON list.  complete: the dict has every
\* required field of CodingQuestion.
QData(title, category, test_cases, complete) ==
    [title |-> title, category |-> category, test_cases |-> test_cases,
     complete |-> complete]

get_fallback_questions ==
    << QData("Two Sum", "Array",
             <<TestCase(<<"a">>, <<"[", "0", ",", "1", "]">>),
               TestCase(<<"b">>, <<"[", "1", ",", "2", "]">>)>>, TRUE),
       QData("Valid Parentheses", "Stack",
             <<TestCase(<<"a">>, <<"t">>), TestCase(<<"b">>, <<"f">>)>>, TRUE),
       QData("Reverse Linked List", "Linked List",
             <<TestCase(<<"a">>, <<"5", "1">>)>>, TRUE),
       QData("Merge Intervals", "Array",
             <<TestCase(<<"a">>, <<"[", "[", "1", ",", "6", "]", "]">>)>>, TRUE),
       QData("LRU Cache", "Design",
             <<TestCase(<<"a">>, <<"1">>)>>, TRUE) >>

\* The outcome of the call of the Groq API: no list (no key, 401, an HTTP
\* error, an exception, text that is no JSON list), or the parsed list
NoList == [is_list |-> FALSE, questions |-> <<>>]
GroqList(questions) == [is_list |-> TRUE, questions |-> questions]

\* generate_company_questions, given the outcome of the API call
generate_company_questions(groq) ==
    IF ~groq.is_list THEN get_fallback_questions
    ELSE LET titles == [i \in 1..Len(groq.questions) |-> groq.questions[i].title]
         IN IF Len(titles) # Cardinality(SetOf(titles))
            THEN get_fallback_questions
            ELSE Take(groq.questions, 5)

----------------------------------------------------------------------------
(* interview_routes.py: get_company_questions *)

\* CodingQuestion(**q_data, companies=[company]).model_dump(): created_at is a
\* datetime
CodingQuestion(id, q_data, company, created_at) ==
    [id |-> id, title |-> q_data.title, category |-> q_data.category,
     test_cases |-> q_data.test_cases, companies |-> <<company>>,
     created_at |-> created_at]

\* doc['created_at'] = doc['created_at'].isoformat(), for each inserted
\* document; the JSON encoding of a response writes a datetime the same way
StoredQuestions(questions) ==
    [i \in 1..Len(questions) |-> [questions[i] EXCEPT !.created_at = IsoFormat(@)]]

\* The last call of get_company_questions and its response; generated: None
\* when the generator was not invoked, else the length of the list it returned
QuestionsResponse(company, force_refresh, code, questions, cached, generated) ==
    [op |-> "get_company_questions", arg |-> company, force_refresh |-> force_refresh,
     code |-> code, questions |-> questions, cached |-> cached, generated |-> generated]

\* Mutant: the cache lookup without the created_at condition
RECURSIVE FreshQuestions_anyAge(_, _, _)
FreshQuestions_anyAge(docs, company, t) ==
    IF docs = <<>> THEN <<>>
    ELSE IF company \in SetOf(Head(docs).companies)
    THEN <<Head(docs)>> \o FreshQuestions_anyAge(Tail(docs), company, t)
    ELSE FreshQuestions_anyAge(Tail(docs), company, t)

\* find({"companies": company, "created_at": {"$gte": (now - 1 day).isoformat()}})
RECURSIVE FreshQuestions(_, _, _)
FreshQuestions(docs, company, t) ==
    IF docs = <<>> THEN <<>>
    ELSE IF /\ company \in SetOf(Head(docs).companies)
            /\ StrGte(Head(docs).created_at, IsoFormat(t - Day))
    THEN <<Head(docs)>> \o FreshQuestions(Tail(docs), company, t)
    ELSE FreshQuestions(Tail(docs), company, t)

\* Mutant: the old questions of the company are kept
DeleteCompany_keep(docs, company) == docs

\* delete_many({"companies": company})
RECURSIVE DeleteCompany(_, _)
DeleteCompany(docs, company) ==
    IF docs = <<>> THEN <<>>
    ELSE IF company \in SetOf(Head(docs).companies)
    THEN DeleteCompany(Tail(docs), company)
    ELSE <<Head(docs)>> \o DeleteCompany(Tail(docs), company)

\* The number of elements the insert loop saves before CodingQuestion(**q_data)
\* raises on an incomplete one; all of them when none is incomplete
RECURSIVE SavedCount(_)
SavedCount(questions_data) ==
    IF questions_data = <<>> \/ ~Head(questions_data).complete THEN 0
    ELSE 1 + SavedCount(Tail(questions_data))

\* saved_questions: the questions the insert loop constructs and inserts
NewQuestions(questions_data, company, first_id, t) ==
    [i \in 1..SavedCount(questions_data) |->
        CodingQuestion(first_id + i, questions_data[i], company, t)]

\* Mutant: an empty generator result is treated like any other
RegenerateFails_never(questions_data) == FALSE

\* `if not questions_data`
RegenerateFails(questions_data) == questions_data = <<>>

\* Lines 70-89: generate, then delete the company's questions and insert the batch
Regenerate(company, force_refresh, groq) ==
    LET questions_data == generate_company_questions(groq)
        saved_questions == NewQuestions(questions_data, company, uuids, now)
    IN IF RegenerateFails(questions_data)
       THEN /\ result' = QuestionsResponse(company, force_refresh, 500, <<>>, FALSE,
                                              Some(Len(questions_data)))
            /\ UNCHANGED <<coding_questions, uuids>>
       ELSE /\ coding_questions' = DeleteCompany(coding_questions, company)
                                   \o StoredQuestions(saved_questions)
            /\ uuids' = uuids + Len(saved_questions)
            /\ result' = IF Len(saved_questions) = Len(questions_data)
                         THEN QuestionsResponse(company, force_refresh, 200,
                                                StoredQuestions(saved_questions), FALSE,
                                                Some(Len(questions_data)))
                         ELSE QuestionsResponse(company, force_refresh, 500, <<>>,
                                                FALSE, Some(Len(questions_data)))

\* GET /interview-prep/questions
get_company_questions(company, student_id, force_refresh, groq) ==
    LET cached_questions ==
            IF force_refresh THEN <<>>
            ELSE Take(FreshQuestions(coding_questions, company, now), FetchLimit)
    IN /\ IF Len(cached_questions) >= 5
          THEN /\ result' = QuestionsResponse(company, force_refresh, 200,
                                              Take(cached_questions, 5), TRUE, None)
               /\ UNCHANGED <<coding_questions, uuids>>
          ELSE Regenerate(company, force_refresh, groq)
       /\ UNCHANGED <<users, requests, interview_prep_profiles, code_submissions, now,
                      liveVars>>

----------------------------------------------------------------------------
(* utils/code_executor.py *)

\* The characters str.strip() removes, among those the model writes
Whitespace == {" ", "\n", "\t"}

RECURSIVE LStrip(_)
LStrip(s) == IF s # <<>> /\ Head(s) \in Whitespace THEN LStrip(Tail(s)) ELSE s

RECURSIVE RStrip(_)
RStrip(s) ==
    IF s # <<>> /\ s[Len(s)] \in Whitespace THEN RStrip(SubSeq(s, 1, Len(s) - 1)) ELSE s

\* str.strip()
Strip(s) == RStrip(LStrip(s))

\* `x or ''` for an Optional[str] x
OrEmpty(optstr) == IF IsNone(optstr) THEN <<>> ELSE Get(optstr)

\* What happens to the request for one test case: Judge0 answers with JSON
\* (status id, stdout and stderr, each possibly null), or the request raises
\* an exception whose str() is `message`
JudgeAnswers(status_id, stdout, stderr) ==
    [raised |-> FALSE, status_id |-> status_id, stdout |-> stdout, stderr |-> stderr,
     message |-> ""]
JudgeRaises(message) ==
    [raised |-> TRUE, status_id |-> 0, stdout |-> None, stderr |-> None,
     message |-> message]

\* One element of test_results.  error: Optional[str]
TestResult(test_case, passed, output, error) ==
    [test_case |-> test_case, passed |-> passed, output |-> output, error |-> error]

\* Mutant: the first exception ends the loop; the tests after it get no result
RECURSIVE RunTests_abort(_, _)
RunTests_abort(test_cases, runs) ==
    IF test_cases = <<>> THEN <<>>
    ELSE IF Head(runs).raised
    THEN <<TestResult(Head(test_cases), FALSE, <<>>, Some(Head(runs).message))>>
    ELSE <<TestResult(Head(test_cases), Head(runs).status_id = 3,
                      Strip(OrEmpty(Head(runs).stdout)), Head(runs).stderr)>>
         \o RunTests_abort(Tail(test_cases), Tail(runs))

\* The loop of execute_code over the test cases, runs[i] being what happens to
\* the request for the i-th
RECURSIVE RunTests(_, _)
RunTests(test_cases, runs) ==
    IF test_cases = <<>> THEN <<>>
    ELSE (IF Head(runs).raised
          THEN <<TestResult(Head(test_cases), FALSE, <<>>, Some(Head(runs).message))>>
          ELSE <<TestResult(Head(test_cases), Head(runs).status_id = 3,
                            Strip(OrEmpty(Head(runs).stdout)), Head(runs).stderr)>>)
         \o RunTests(Tail(test_cases), Tail(runs))

\* The mock execution when RAPIDAPI_KEY is not set
MockTests(test_cases) ==
    [i \in 1..Len(test_cases) |->
        TestResult(test_cases[i], TRUE, test_cases[i].expected_output, Some(""))]

\* execute_code; has_key: RAPIDAPI_KEY is set
execute_code(has_key, test_cases, runs) ==
    LET results == IF has_key THEN RunTests(test_cases, runs) ELSE MockTests(test_cases)
    IN [status |-> IF \A i \in 1..Len(results) : results[i].passed
                   THEN "accepted" ELSE "wrong_answer",
        test_results |-> results]

----------------------------------------------------------------------------
(* interview_routes.py: submit_code_solution *)

\* str.replace(' ', '')
RECURSIVE RemoveSpaces(_)
RemoveSpaces(s) ==
    IF s = <<>> THEN <<>>
    ELSE IF Head(s) = " " THEN RemoveSpaces(Tail(s))
    ELSE <<Head(s)>> \o RemoveSpaces(Tail(s))

\* str.startswith('[')
StartsWithBracket(s) == s # <<>> /\ Head(s) = "["

\* `not test.get('error')` is false for a non-empty string only
HasError(test) == ~IsNone(test.error) /\ Get(test.error) # ""

\* Mutant: the error of the test is not looked at
Verdict_ignoreError(test) ==
    LET expected == Strip(test.test_case.expected_output)
        output == Strip(test.output)
    IN IF StartsWithBracket(output) /\ StartsWithBracket(expected)
       THEN RemoveSpaces(output) = RemoveSpaces(expected)
       ELSE output = expected

\* Lines 122-129: test['passed']
Verdict(test) ==
    LET expected == Strip(test.test_case.expected_output)
        output == Strip(test.output)
    IN IF StartsWithBracket(output) /\ StartsWithBracket(expected)
       THEN RemoveSpaces(output) = RemoveSpaces(expected) /\ ~HasError(test)
       ELSE output = expected /\ ~HasError(test)

\* The loop of lines 121-129 over execution_result['test_results']
Grade(test_results) ==
    [i \in 1..Len(test_results) |-> [test_results[i] EXCEPT !.passed = Verdict(test_results[i])]]

\* passed: sum(1 for t in test_results if t['passed'])
PassedCount(test_results) == Cardinality({i \in 1..Len(test_results) : test_results[i].passed})

\* Mutant: the status the executor computed
SubmissionStatus_executor(execution_result, test_results) == execution_result.status

\* "accepted" if passed == total else "wrong_answer"
SubmissionStatus(execution_result, test_results) ==
    IF PassedCount(test_results) = Len(test_results) THEN "accepted" ELSE "wrong_answer"

\* CodeSubmission(...).model_dump()
CodeSubmission(id, student_id, question_id, status, test_results) ==
    [id |-> id, student_id |-> student_id, question_id |-> question_id,
     status |-> status, test_results |-> test_results]

\* A document of db.interview_prep_profiles; a list field the document does
\* not have is the empty list, as every reader takes it
InterviewPrepProfile(student_id) ==
    [student_id |-> student_id, target_companies |-> <<>>, solved_questions |-> <<>>,
     attempted_questions |-> <<>>, failed_questions |-> <<>>, readiness_score |-> 0,
     strong_topics |-> <<>>, weak_topics |-> <<>>, last_practiced |-> None]

\* find_one({"student_id": student_id})
FindByStudent(docs, student_id) ==
    First({i \in 1..Len(docs) : docs[i].student_id = student_id})

\* $pull: every occurrence of x removed
RECURSIVE Pull(_, _)
Pull(list, x) ==
    IF list = <<>> THEN <<>>
    ELSE IF Head(list) = x THEN Pull(Tail(list), x)
    ELSE <<Head(list)>> \o Pull(Tail(list), x)

\* Mutant: a pass leaves weak_topics as it is
ApplyVerdict_noPull(profile, question, all_passed) ==
    IF all_passed
    THEN [profile EXCEPT !.attempted_questions = AddToSet(@, question.id),
                         !.solved_questions = AddToSet(@, question.id),
                         !.strong_topics = AddToSet(@, question.category)]
    ELSE [profile EXCEPT !.attempted_questions = AddToSet(@, question.id),
                         !.failed_questions = AddToSet(@, question.id),
                         !.weak_topics = AddToSet(@, question.category)]

\* Mutant: a failed question is not recorded as attempted
ApplyVerdict_failUnattempted(profile, question, all_passed) ==
    IF all_passed
    THEN [profile EXCEPT !.attempted_questions = AddToSet(@, question.id),
                         !.solved_questions = AddToSet(@, question.id),
                         !.strong_topics = AddToSet(@, question.category),
                         !.weak_topics = Pull(@, question.category)]
    ELSE [profile EXCEPT !.failed_questions = AddToSet(@, question.id),
                         !.weak_topics = AddToSet(@, question.category)]

\* Mutant: a pass takes the question out of failed_questions, a failure takes
\* it out of solved_questions
ApplyVerdict_moving(profile, question, all_passed) ==
    IF all_passed
    THEN [profile EXCEPT !.attempted_questions = AddToSet(@, question.id),
                         !.solved_questions = AddToSet(@, question.id),
                         !.failed_questions = Pull(@, question.id),
                         !.strong_topics = AddToSet(@, question.category),
                         !.weak_topics = Pull(@, question.category)]
    ELSE [profile EXCEPT !.attempted_questions = AddToSet(@, question.id),
                         !.failed_questions = AddToSet(@, question.id),
                         !.solved_questions = Pull(@, question.id),
                         !.weak_topics = AddToSet(@, question.category)]

\* update_data of lines 149-160 applied to the profile
ApplyVerdict(profile, question, all_passed) ==
    IF all_passed
    THEN [profile EXCEPT !.attempted_questions = AddToSet(@, question.id),
                         !.solved_questions = AddToSet(@, question.id),
                         !.strong_topics = AddToSet(@, question.category),
                         !.weak_topics = Pull(@, question.category)]
    ELSE [profile EXCEPT !.attempted_questions = AddToSet(@, question.id),
                         !.failed_questions = AddToSet(@, question.id),
                         !.weak_topics = AddToSet(@, question.category)]

\* update_one(..., upsert=True): the student's profile first if there is none
Upsert(docs, student_id) ==
    IF FindByStudent(docs, student_id) = 0
    THEN Append(docs, InterviewPrepProfile(student_id))
    ELSE docs

\* Mutant: the quotient is not capped
Readiness_uncapped(solved_count) == (solved_count * 100 * Unit) \div 50

\* min((solved_count / 50) * 100, 100), in model units
Readiness(solved_count) == Min((solved_count * 100 * Unit) \div 50, 100 * Unit)

\* round(readiness, 1): to the nearest tenth, a tie to the even tenth
Round1(score) ==
    LET q == Unit \div 10
        r == score % q
        down == score - r
    IN IF 2 * r < q THEN down
       ELSE IF 2 * r > q THEN down + q
       ELSE IF (down \div q) % 2 = 0 THEN down ELSE down + q

\* The last call of submit_code_solution (with has_key and runs, what the
\* executor met during it) and its response
SubmitResponse(student_id, question_id, has_key, runs, code, status, test_results, passed, total, readiness_score) ==
    [op |-> "submit_code_solution", arg |-> student_id, arg2 |-> question_id,
     has_key |-> has_key, runs |-> runs,
     code |-> code, status |-> status, test_results |-> test_results,
     passed |-> passed, total |-> total, readiness_score |-> readiness_score]

\* POST /interview-prep/submit
submit_code_solution(student_id, question_id, has_key, runs) ==
    LET question == FindById(coding_questions, question_id)
    IN /\ IF question = 0
          THEN /\ result' = SubmitResponse(student_id, question_id, has_key, runs, 404, "",
                                           <<>>, 0, 0, 0)
               /\ UNCHANGED <<code_submissions, interview_prep_profiles>>
          ELSE LET execution_result ==
                       execute_code(has_key, coding_questions[question].test_cases, runs)
                   test_results == Grade(execution_result.test_results)
                   passed == PassedCount(test_results)
                   total == Len(test_results)
                   status == SubmissionStatus(execution_result, test_results)
                   upserted == Upsert(interview_prep_profiles, student_id)
                   profile == FindByStudent(upserted, student_id)
                   updated == ApplyVerdict(upserted[profile], coding_questions[question],
                                           passed = total)
                   readiness == Readiness(Len(updated.solved_questions))
               IN /\ code_submissions' =
                        Append(code_submissions,
                               CodeSubmission(Len(code_submissions) + 1, student_id,
                                              question_id, status, test_results))
                  /\ interview_prep_profiles' =
                        [upserted EXCEPT ![profile] =
                            [updated EXCEPT !.last_practiced = Some(IsoFormat(now)),
                                            !.readiness_score = readiness]]
                  /\ result' = SubmitResponse(student_id, question_id, has_key, runs,
                                              200, status, test_results, passed,
                                              total, Round1(readiness))
       /\ UNCHANGED <<users, requests, coding_questions, uuids, now, liveVars>>

----------------------------------------------------------------------------
(* interview_routes.py: set_target_companies, get_company_readiness *)

\* update_one(..., {"$set": {"target_companies": companies}}) on the document
\* at `index`, none when index = 0
SetTargetCompanies(docs, index, companies) ==
    IF index = 0 THEN docs
    ELSE [docs EXCEPT ![index] = [@ EXCEPT !.target_companies = companies]]

CompaniesResponse(student_id, companies) ==
    [op |-> "set_target_companies", arg |-> student_id, code |-> 200,
     companies |-> companies]

\* POST /interview-prep/set-companies
set_target_companies(student_id, companies) ==
    /\ users' = SetTargetCompanies(users, FindById(users, student_id), companies)
    /\ interview_prep_profiles' =
          SetTargetCompanies(Upsert(interview_prep_profiles, student_id),
                             FindByStudent(Upsert(interview_prep_profiles, student_id),
                                           student_id),
                             companies)
    /\ result' = CompaniesResponse(student_id, companies)
    /\ UNCHANGED <<requests, coding_questions, code_submissions, uuids, now, liveVars>>

\* find({"companies": company})
RECURSIVE FindByCompany(_, _)
FindByCompany(docs, company) ==
    IF docs = <<>> THEN <<>>
    ELSE IF company \in SetOf(Head(docs).companies)
    THEN <<Head(docs)>> \o FindByCompany(Tail(docs), company)
    ELSE FindByCompany(Tail(docs), company)

\* solved_for_company: the solved ids among the ids of the first 100 stored
\* questions of the company
SolvedForCompany(questions, profile, company) ==
    Cardinality(SetOf(profile.solved_questions)
                \cap {q.id : q \in SetOf(Take(FindByCompany(questions, company),
                                              FetchLimit))})

\* round((solved_for_company / total_needed) * 100, 1), in model units
ReadinessPercentage(solved_for_company) ==
    Round1((solved_for_company * 100 * Unit) \div 50)

\* One element of readiness_data
CompanyReadiness(questions, profile, company) ==
    [company |-> company,
     readiness_percentage |-> ReadinessPercentage(SolvedForCompany(questions, profile,
                                                                   company)),
     questions_solved |-> SolvedForCompany(questions, profile, company),
     questions_needed |-> 50,
     weak_areas |-> profile.weak_topics]

ReadinessResponse(student_id, code, readiness) ==
    [op |-> "get_company_readiness", arg |-> student_id, code |-> code,
     readiness |-> readiness]

\* The response of get_company_readiness in a state of the store
ReadinessReport(docs, questions, profiles, student_id) ==
    IF FindById(docs, student_id) = 0 THEN ReadinessResponse(student_id, 404, <<>>)
    ELSE ReadinessResponse(
             student_id, 200,
             [k \in 1..Len(docs[FindById(docs, student_id)].target_companies) |->
                 CompanyReadiness(questions,
                                  IF FindByStudent(profiles, student_id) = 0
                                  THEN InterviewPrepProfile(student_id)
                                  ELSE profiles[FindByStudent(profiles, student_id)],
                                  docs[FindById(docs, student_id)].target_companies[k])])

\* GET /interview-prep/readiness/{student_id}
get_company_readiness(student_id) ==
    /\ result' = ReadinessReport(users, coding_questions, interview_prep_profiles,
                                 student_id)
    /\ UNCHANGED <<users, requests, coding_questions, interview_prep_profiles,
                   code_submissions, uuids, now, liveVars>>

----------------------------------------------------------------------------
(* get_company_questions and submit_code_solution step by step: what a call *)
(* does between two awaits on the database is one step, and the steps of    *)
(* different calls interleave.  RemoveAt and ReplaceAt take a suspended     *)
(* call out of tasks or change it.                                          *)

RemoveAt(list, k) == SubSeq(list, 1, k - 1) \o SubSeq(list, k + 1, Len(list))

ReplaceAt(list, k, x) == [list EXCEPT ![k] = x]

\* A suspended call of get_company_questions: before delete_many ("delete")
\* or before the next insert_one ("insert"); saved is saved_questions
FetchTask(company, force_refresh, pc, questions_data, saved) ==
    [op |-> "get_company_questions", company |-> company,
     force_refresh |-> force_refresh, pc |-> pc, questions_data |-> questions_data,
     saved |-> saved]

\* Lines 59-75: the cache lookup and, on a miss, the generation
get_company_questions_lookup(company, force_refresh, groq) ==
    LET cached_questions ==
            IF force_refresh THEN <<>>
            ELSE Take(FreshQuestions(coding_questions, company, now), FetchLimit)
        questions_data == generate_company_questions(groq)
    IN /\ IF Len(cached_questions) >= 5
          THEN /\ result' = QuestionsResponse(company, force_refresh, 200,
                                              Take(cached_questions, 5), TRUE, None)
               /\ UNCHANGED tasks
          ELSE IF RegenerateFails(questions_data)
          THEN /\ result' = QuestionsResponse(company, force_refresh, 500, <<>>, FALSE,
                                              Some(Len(questions_data)))
               /\ UNCHANGED tasks
          ELSE /\ tasks' = Append(tasks, FetchTask(company, force_refresh, "delete",
                                                   questions_data, <<>>))
               /\ UNCHANGED result
       /\ UNCHANGED <<users, requests, prepVars, connected_clients, handlers>>

\* Line 78: delete_many({"companies": company})
get_company_questions_delete(k) ==
    /\ tasks[k].op = "get_company_questions"
    /\ tasks[k].pc = "delete"
    /\ coding_questions' = DeleteCompany(coding_questions, tasks[k].company)
    /\ tasks' = ReplaceAt(tasks, k, [tasks[k] EXCEPT !.pc = "insert"])
    /\ UNCHANGED <<users, requests, result, interview_prep_profiles, code_submissions,
                   uuids, now, connected_clients, handlers>>

\* Lines 80-89: the next question is constructed and inserted; after the last
\* one the call returns; an incomplete element raises
get_company_questions_insert(k) ==
    LET task == tasks[k]
        q_data == task.questions_data[Len(task.saved) + 1]
        saved == Append(task.saved,
                        CodingQuestion(uuids + 1, q_data, task.company, now))
    IN /\ task.op = "get_company_questions"
       /\ task.pc = "insert"
       /\ IF ~q_data.complete
          THEN /\ result' = QuestionsResponse(task.company, task.force_refresh, 500, <<>>,
                                              FALSE, Some(Len(task.questions_data)))
               /\ tasks' = RemoveAt(tasks, k)
               /\ UNCHANGED <<coding_questions, uuids>>
          ELSE /\ coding_questions' =
                      coding_questions \o StoredQuestions(<<saved[Len(saved)]>>)
               /\ uuids' = uuids + 1
               /\ IF Len(saved) = Len(task.questions_data)
                  THEN /\ result' = QuestionsResponse(task.company, task.force_refresh, 200,
                                                      StoredQuestions(saved), FALSE,
                                                      Some(Len(task.questions_data)))
                       /\ tasks' = RemoveAt(tasks, k)
                  ELSE /\ tasks' = ReplaceAt(tasks, k, [task EXCEPT !.saved = saved])
                       /\ UNCHANGED result
       /\ UNCHANGED <<users, requests, interview_prep_profiles, code_submissions, now,
                      connected_clients, handlers>>

\* A suspended call of submit_code_solution: before the upsert ("update"),
\* before the profile is read again ("read") or before the score is written
\* ("write"); question, status, test_results and solved_count are its local
\* values, has_key and runs what its executor met
SubmitTask(student_id, question, has_key, runs, pc, status, test_results, solved_count) ==
    [op |-> "submit_code_solution", student_id |-> student_id, question |-> question,
     has_key |-> has_key, runs |-> runs, pc |-> pc, status |-> status,
     test_results |-> test_results, solved_count |-> solved_count]

\* Lines 109-146: the question is found, the code executed and graded, the
\* submission inserted
submit_code_solution_grade(student_id, question_id, has_key, runs) ==
    LET question == FindById(coding_questions, question_id)
    IN /\ IF question = 0
          THEN /\ result' = SubmitResponse(student_id, question_id, has_key, runs, 404, "",
                                           <<>>, 0, 0, 0)
               /\ UNCHANGED <<code_submissions, tasks>>
          ELSE LET execution_result ==
                       execute_code(has_key, coding_questions[question].test_cases, runs)
                   test_results == Grade(execution_result.test_results)
               IN /\ code_submissions' =
                        Append(code_submissions,
                               CodeSubmission(Len(code_submissions) + 1, student_id,
                                              question_id,
                                              SubmissionStatus(execution_result,
                                                               test_results),
                                              test_results))
                  /\ tasks' = Append(tasks,
                                     SubmitTask(student_id, coding_questions[question],
                                                has_key, runs, "update",
                                                SubmissionStatus(execution_result,
                                                                 test_results),
                                                test_results, 0))
                  /\ UNCHANGED result
       /\ UNCHANGED <<users, requests, coding_questions, interview_prep_profiles, uuids,
                      now, connected_clients, handlers>>

\* Lines 149-166: update_one(..., upsert=True)
submit_code_solution_update(k) ==
    LET task == tasks[k]
        upserted == Upsert(interview_prep_profiles, task.student_id)
        profile == FindByStudent(upserted, task.student_id)
    IN /\ task.op = "submit_code_solution"
       /\ task.pc = "update"
       /\ interview_prep_profiles' =
             [upserted EXCEPT ![profile] =
                 [ApplyVerdict(upserted[profile], task.question,
                               PassedCount(task.test_results) = Len(task.test_results))
                     EXCEPT !.last_practiced = Some(IsoFormat(now))]]
       /\ tasks' = ReplaceAt(tasks, k, [task EXCEPT !.pc = "read"])
       /\ UNCHANGED <<users, requests, result, coding_questions, code_submissions, uuids,
                      now, connected_clients, handlers>>

\* Lines 168-172: find_one and solved_count
submit_code_solution_read(k) ==
    LET task == tasks[k]
        profile == FindByStudent(interview_prep_profiles, task.student_id)
    IN /\ task.op = "submit_code_solution"
       /\ task.pc = "read"
       /\ tasks' = ReplaceAt(tasks, k,
                             [task EXCEPT !.pc = "write",
                                          !.solved_count =
                                              IF profile = 0 THEN 0
                                              ELSE Len(interview_prep_profiles[profile]
                                                           .solved_questions)])
       /\ UNCHANGED <<users, requests, result, prepVars, connected_clients, handlers>>

\* Lines 173-188: the score is computed from solved_count and written, and the
\* call returns
submit_code_solution_write(k) ==
    LET task == tasks[k]
        profile == FindByStudent(interview_prep_profiles, task.student_id)
        readiness == Readiness(task.solved_count)
    IN /\ task.op = "submit_code_solution"
       /\ task.pc = "write"
       /\ interview_prep_profiles' =
             IF profile = 0 THEN interview_prep_profiles
             ELSE [interview_prep_profiles EXCEPT ![profile].readiness_score = readiness]
       /\ result' = SubmitResponse(task.student_id, task.question.id, task.has_key,
                                   task.runs, 200, task.status, task.test_results,
                                   PassedCount(task.test_results), Len(task.test_results),
                                   Round1(readiness))
       /\ tasks' = RemoveAt(tasks, k)
       /\ UNCHANGED <<users, requests, coding_questions, code_submissions, uuids, now,
                      connected_clients, handlers>>

----------------------------------------------------------------------------
(* chat_routes.py: websocket_chat, for the clients of one room.  A step is  *)
(* what a coroutine does between two awaits.                                *)

Clients == 1..MaxClients

\* The coroutine of a client's connection.  pc: "new" before the handshake,
\* "rejected" after close(403), "receive", "insert" and "send" for the await
\* it is suspended at, "exited" after the finally block.  open: the client has
\* not closed its socket.  A coroutine at "send" is inside the for loop over a
\* list object: the one connected_clients holds (aliased), or one that
\* connected_clients held when the loop began and no longer holds (iterated,
\* which nobody changes any more); index is the loop's position, target the
\* connection of the pending send_json, living is living_clients.
Handler(pc, open, aliased, iterated, index, target, living) ==
    [pc |-> pc, open |-> open, aliased |-> aliased, iterated |-> iterated,
     index |-> index, target |-> target, living |-> living]

NotLooping(pc, open) == Handler(pc, open, FALSE, <<>>, 0, 0, <<>>)

ChatInit ==
    /\ connected_clients = None
    /\ handlers = [c \in Clients |-> NotLooping("new", TRUE)]

\* list.remove(x): the first occurrence taken out
RECURSIVE RemoveFirst(_, _)
RemoveFirst(list, x) ==
    IF list = <<>> THEN <<>>
    ELSE IF Head(list) = x THEN Tail(list)
    ELSE <<Head(list)>> \o RemoveFirst(Tail(list), x)

\* connected_clients.get(room_id, [])
RoomList == IF IsNone(connected_clients) THEN <<>> ELSE Get(connected_clients)

\* The coroutines after connected_clients[room_id] has been bound to another
\* list object or deleted: a loop over the old object keeps that object
Detached(hs) ==
    [c \in Clients |->
        IF hs[c].aliased
        THEN [hs[c] EXCEPT !.aliased = FALSE, !.iterated = RoomList]
        ELSE hs[c]]

\* Lines 38-46: the origin check, accept and the append to the room's list
websocket_chat_connect(c, origin_allowed) ==
    /\ handlers[c].pc = "new"
    /\ IF origin_allowed
       THEN /\ connected_clients' = Some(Append(RoomList, c))
            /\ handlers' = [handlers EXCEPT ![c] = NotLooping("receive", @.open)]
       ELSE /\ handlers' = [handlers EXCEPT ![c] = NotLooping("rejected", FALSE)]
            /\ UNCHANGED connected_clients

\* The client closes its socket
client_close(c) ==
    /\ handlers[c].pc \in {"receive", "insert", "send"}
    /\ handlers[c].open
    /\ handlers' = [handlers EXCEPT ![c].open = FALSE]
    /\ UNCHANGED connected_clients

\* Lines 50-79: receive_json returns a message with text; insert_one is awaited
websocket_chat_receive(c) ==
    /\ handlers[c].pc = "receive"
    /\ handlers[c].open
    /\ handlers' = [handlers EXCEPT ![c].pc = "insert"]
    /\ UNCHANGED connected_clients

\* Lines 52-54 and 98-104: receive_json raises WebSocketDisconnect; the
\* finally block removes the connection and deletes an empty room
websocket_chat_disconnect(c) ==
    /\ handlers[c].pc = "receive"
    /\ ~handlers[c].open
    /\ IF IsNone(connected_clients)
       THEN /\ handlers' = [handlers EXCEPT ![c] = NotLooping("exited", FALSE)]
            /\ UNCHANGED connected_clients
       ELSE IF RemoveFirst(RoomList, c) # <<>>
       THEN /\ connected_clients' = Some(RemoveFirst(RoomList, c))
            /\ handlers' = [handlers EXCEPT ![c] = NotLooping("exited", FALSE)]
       ELSE /\ connected_clients' = None
            /\ handlers' = [Detached([handlers EXCEPT ![c].aliased = FALSE])
                               EXCEPT ![c] = NotLooping("exited", FALSE)]

\* Lines 84-96 up to the first await: the for loop begins on the room's list;
\* with nothing to iterate the room is bound to the empty living_clients
websocket_chat_broadcast(c) ==
    /\ handlers[c].pc = "insert"
    /\ IF RoomList = <<>>
       THEN /\ connected_clients' = Some(<<>>)
            /\ handlers' = [Detached(handlers) EXCEPT ![c] = NotLooping("receive", @.open)]
       ELSE /\ handlers' = [handlers EXCEPT ![c] =
                               Handler("send", @.open, TRUE, <<>>, 1, RoomList[1], <<>>)]
            /\ UNCHANGED connected_clients

\* The list object the loop of c runs over, as it is now
IteratedList(c) == IF handlers[c].aliased THEN RoomList ELSE handlers[c].iterated

\* living_clients once the pending send_json has returned or raised: it raises
\* for a connection the client has closed
LivingAfterSend(c) ==
    IF handlers[handlers[c].target].open
    THEN Append(handlers[c].living, handlers[c].target)
    ELSE handlers[c].living

\* Lines 87-96 from one await to the next: the pending send_json ends, the loop
\* goes on to the next position of the list, and, at its end, the room is
\* bound to living_clients
websocket_chat_sent(c) ==
    /\ handlers[c].pc = "send"
    /\ IF handlers[c].index + 1 <= Len(IteratedList(c))
       THEN /\ handlers' = [handlers EXCEPT ![c].index = @ + 1,
                                            ![c].target =
                                                IteratedList(c)[handlers[c].index + 1],
                                            ![c].living = LivingAfterSend(c)]
            /\ UNCHANGED connected_clients
       ELSE /\ connected_clients' = Some(LivingAfterSend(c))
            /\ handlers' = [Detached(handlers) EXCEPT ![c] = NotLooping("receive", @.open)]

----------------------------------------------------------------------------
(* Inputs.  An e-mail address is named by a number; a call names a known    *)
(* address or the next new one.  The Firebase uid of an address is the      *)
(* address's number.                                                        *)

PrepInit ==
    /\ coding_questions = <<>>
    /\ interview_prep_profiles = <<>>
    /\ code_submissions = <<>>
    /\ uuids = 0
    /\ now = Day

\* No call is suspended, no client has connected
LiveInit ==
    /\ tasks = <<>>
    /\ ChatInit

Init ==
    /\ users = <<>>
    /\ requests = <<>>
    /\ result = NoResponse
    /\ PrepInit
    /\ LiveInit

EmailsFor(cap) == 1..Min(Len(users) + 1, cap)

FirebaseInputs(cap, roles) ==
    {[firebase_uid |-> Some(e), email |-> Some(e), role |-> r] :
        e \in EmailsFor(cap), r \in roles}
    \cup {[firebase_uid |-> None, email |-> Some(1), role |-> None],
          [firebase_uid |-> Some(1), email |-> None, role |-> None]}

YearsUpdate(y) == UserUpdate(None, None, Some(MentorProfile(TRUE, <<>>, y)), None)

----------------------------------------------------------------------------
(* Spec: the request lifecycle on a store of at most MaxUsers users and     *)
(* MaxRequests mentorship requests                                          *)

UserIds == 1..MaxUsers
RequestIds == 1..MaxRequests
Statuses == {"accepted", "rejected", "cancelled"}

CreateUser ==
    /\ Len(users) < MaxUsers
    /\ \E email \in EmailsFor(MaxUsers), role \in {"both", "mentor"} :
          create_user(email, role)
    /\ UNCHANGED <<prepVars, liveVars>>

UpdateUser ==
    /\ \E user_id \in UserIds : update_user(user_id, YearsUpdate(5))
    /\ UNCHANGED <<prepVars, liveVars>>

GetMentorMatches ==
    /\ \E user_id \in UserIds : get_mentor_matches(user_id)
    /\ UNCHANGED <<prepVars, liveVars>>

CreateMentorshipRequest ==
    /\ Len(requests) < MaxRequests
    /\ \E mentor_id \in UserIds, mentee_id \in UserIds :
          create_mentorship_request(mentor_id, mentee_id, "hi")
    /\ UNCHANGED <<prepVars, liveVars>>

RespondToMentorshipRequest ==
    /\ \E request_id \in RequestIds, status \in Statuses :
           respond_to_mentorship_request(request_id, status)
    /\ UNCHANGED <<prepVars, liveVars>>

Next ==
    \/ CreateUser
    \/ UpdateUser
    \/ GetMentorMatches
    \/ CreateMentorshipRequest
    \/ RespondToMentorshipRequest

Spec == Init /\ [][Next]_vars

----------------------------------------------------------------------------
(* SpecMatch: sign-up, Firebase sync, profile updates and match ranking     *)

MatchUpdates ==
    { UserUpdate(None, None, Some(MentorProfile(TRUE, <<"python">>, 5)), None),
      UserUpdate(None, None, Some(MentorProfile(FALSE, <<>>, 0)), None),
      UserUpdate(Some(<<"python">>), Some(Austin), None, Some(MenteeProfile(<<"python">>))) }

MatchCreateUser ==
    /\ Len(users) < MatchUsers
    /\ \E email \in EmailsFor(MatchUsers), role \in {"student", "mentor"} :
          create_user(email, role)
    /\ UNCHANGED <<prepVars, liveVars>>

MatchFirebaseSync ==
    /\ Len(users) < MatchUsers
    /\ \E user_data \in FirebaseInputs(MatchUsers, {None, Some("both")}) :
          firebase_sync(user_data)
    /\ UNCHANGED <<prepVars, liveVars>>

MatchUpdateUser ==
    /\ \E user_id \in 1..MatchUsers, update_data \in MatchUpdates : update_user(user_id, update_data)
    /\ UNCHANGED <<prepVars, liveVars>>

MatchGetMentorMatches ==
    /\ \E user_id \in 1..MatchUsers : get_mentor_matches(user_id)
    /\ UNCHANGED <<prepVars, liveVars>>

MatchNext ==
    \/ MatchCreateUser
    \/ MatchFirebaseSync
    \/ MatchUpdateUser
    \/ MatchGetMentorMatches

SpecMatch == Init /\ [][MatchNext]_vars

----------------------------------------------------------------------------
(* SpecRank: match ranking on a store of up to RankUsers users              *)

RankUpdates == {YearsUpdate(3), YearsUpdate(5)}

RankFirebaseSync ==
    /\ Len(users) < RankUsers
    /\ firebase_sync([firebase_uid |-> Some(Len(users) + 1),
                      email |-> Some(Len(users) + 1), role |-> Some("mentor")])
    /\ UNCHANGED <<prepVars, liveVars>>

RankUpdateUser ==
    /\ \E user_id \in 1..RankUsers, update_data \in RankUpdates :
           update_user(user_id, update_data)
    /\ UNCHANGED <<prepVars, liveVars>>

RankGetMentorMatches ==
    /\ \E user_id \in 1..RankUsers : get_mentor_matches(user_id)
    /\ UNCHANGED <<prepVars, liveVars>>

RankNext ==
    \/ RankFirebaseSync
    \/ RankUpdateUser
    \/ RankGetMentorMatches

SpecRank == Init /\ [][RankNext]_vars

----------------------------------------------------------------------------
(* SpecScore: calculate_compatibility on pairs of stored records *)

SkillOrder == <<"python", "sql">>

\* The skill lists of length <= MaxSkills, one per multiset: set(...) ignores
\* the order of a list, not its duplicates
SkillLists == UNION {{[i \in 1..k |-> SkillOrder[g[i]]] :
                        g \in {h \in [1..k -> 1..Len(SkillOrder)] :
                                 \A i \in 1..k, j \in 1..k : i <= j => h[i] <= h[j]}} :
                     k \in 0..MaxSkills}

MentorProfiles ==
    {None} \cup {Some(MentorProfile(TRUE, x, y)) : x \in SkillLists, y \in 0..MaxYears}

MenteeProfiles == {None} \cup {Some(MenteeProfile(x)) : x \in SkillLists}

\* The records a user can be stored as: signed up (create_user) or synced
\* (firebase_sync), then updated (update_user; None leaves a field as it is)
MentorRecords ==
    {SetFields(base, UserUpdate(Some(skills), location, mp, None)) :
        base \in {NewUser(1, 1, "student"), FirebaseUser(1, 1, 1, "mentor")},
        skills \in SkillLists,
        location \in {None, Some(Austin), Some(Boston)},
        mp \in MentorProfiles}

MenteeRecords ==
    {SetFields(base, UserUpdate(Some(skills), location, None, ep)) :
        base \in {NewUser(2, 2, "mentor"), FirebaseUser(2, 2, 2, "student")},
        skills \in SkillLists,
        location \in {None, Some(Austin), Some(austin)},
        ep \in MenteeProfiles}

ScoreInit ==
    /\ \E mentor \in MentorRecords, mentee \in MenteeRecords : users = <<mentor, mentee>>
    /\ requests = <<>>
    /\ result = NoResponse
    /\ PrepInit
    /\ LiveInit

ScoreCall ==
    /\ result = NoResponse
    /\ LET r == calculate_compatibility(users[1], users[2])
       IN result' = Response("calculate_compatibility", 0, 0, "",
                             IF r.exc = "none" THEN 200 ELSE 500, <<>>, r.score)
    /\ UNCHANGED <<users, requests>>
    /\ UNCHANGED <<prepVars, liveVars>>

ScoreNext == ScoreCall

SpecScore == ScoreInit /\ [][ScoreNext]_vars

ScoreReturned == result.op = "calculate_compatibility" /\ result.code = 200

\* C1: every score calculate_compatibility returns lies in [0, 100].
C1_ScoreInRange ==
    ScoreReturned => (0 <= result.score /\ result.score <= 100 * Unit)

\* C1 witness: a returned score of exactly 100, every term at its maximum, for
\* a mentor with two listed skills.
C1_Witness ==
    /\ ScoreReturned
    /\ result.score = 100 * Unit
    /\ Len(users[1].skills) = 2

\* The reference weighted sum, written from the formula: cardinalities of the
\* skill sets, no emptiness guard, case-insensitive comparison char by char.
EqIgnoreCase(s, t) ==
    /\ Len(s) = Len(t)
    /\ \A i \in 1..Len(s) : LowerChar(s[i]) = LowerChar(t[i])

RefScore(mentor, mentee) ==
    LET E == SetOf(Get(mentor.mentor_profile).expertise)
        L == SetOf(Get(mentee.mentee_profile).skills_to_learn)
        S == SetOf(mentor.skills)
        T == SetOf(mentee.skills)
        y == Get(mentor.mentor_profile).years_experience
        t1 == (40 * Cardinality(E \cap L) * Unit) \div Max(Cardinality(L), 1)
        t2 == (25 * Cardinality(S \cap T) * Unit) \div Max(Cardinality(T), 1)
        t3 == IF y >= 5 THEN 20 * Unit ELSE IF 3 <= y /\ y < 5 THEN 10 * Unit ELSE 0
        t4 == IF /\ mentor.location \notin {None, Some(<<>>)}
                 /\ mentee.location \notin {None, Some(<<>>)}
                 /\ EqIgnoreCase(Get(mentor.location), Get(mentee.location))
              THEN 15 * Unit ELSE 0
    IN Min(t1 + t2 + t3 + t4, 100 * Unit)

IsExample ==
    /\ users[1].mentor_profile = Some(MentorProfile(TRUE, <<"python", "sql">>, 6))
    /\ users[2].mentee_profile = Some(MenteeProfile(<<"python">>))
    /\ users[1].skills = <<>> /\ users[2].skills = <<>>
    /\ users[1].location = Some(Austin) /\ users[2].location = Some(Austin)

----------------------------------------------------------------------------
(* Properties of the handlers *)

MatchesReturned == result.op = "get_mentor_matches" /\ result.code = 200

\* C3: scoring is total on stored users: get_mentor_matches and
\* create_mentorship_request end in a result or in NotFound, never in an
\* exception of calculate_compatibility.
C3_ScoringTotal ==
    result.op \in {"get_mentor_matches", "create_mentorship_request"}
        => result.code \in {200, 404}

NonIncreasing(matches) ==
    \A i \in 1..Len(matches), j \in 1..Len(matches) :
        i < j => matches[i].compatibility_score >= matches[j].compatibility_score

\* C4: get_mentor_matches returns at most 5 entries, their scores in
\* non-increasing order.
C4_TopFiveSorted ==
    MatchesReturned => (Len(result.matches) <= 5 /\ NonIncreasing(result.matches))

\* C4 witness: more than 5 mentors were eligible, 5 came back, the stored order
\* was not the returned order, and three different scores are among them.
C4_Witness ==
    /\ MatchesReturned
    /\ Len(EligibleMentors(users, result.arg)) > 5
    /\ Len(result.matches) = 5
    /\ Cardinality({result.matches[i].compatibility_score : i \in 1..5}) = 3
    /\ \E i \in 1..5, j \in 1..5 :
          i < j /\ result.matches[i].mentor.id > result.matches[j].mentor.id

\* C5: every returned mentor has role mentor or both (never a student-only
\* user), is available, and is not the requesting user.
C5_OnlyEligibleMentors ==
    MatchesReturned =>
        \A i \in 1..Len(result.matches) :
            LET m == result.matches[i].mentor
            IN /\ m.role \in {"mentor", "both"}
               /\ m.role # "student"
               /\ ~IsNone(m.mentor_profile)
               /\ Get(m.mentor_profile).is_available = TRUE
               /\ m.id # result.arg

\* C5 witness: a ranking came back while another user of the store was a
\* student with an available mentor profile (a Firebase sign-up).
C5_Witness ==
    /\ MatchesReturned
    /\ \E i \in 1..Len(users) :
          /\ users[i].id # result.arg
          /\ users[i].role = "student"
          /\ ~IsNone(users[i].mentor_profile)
          /\ Get(users[i].mentor_profile).is_available = TRUE

Unresolved(id) == FindById(users, id) = 0

\* C6: a create_mentorship_request whose mentor_id or mentee_id does not
\* resolve answers NotFound and leaves the request collection unchanged.
C6_NotFoundPersistsNothing ==
    [][ (/\ result'.op = "create_mentorship_request"
         /\ (Unresolved(result'.arg) \/ Unresolved(result'.arg2)))
        => (result'.code = 404 /\ requests' = requests) ]_vars

\* C6 witness: the mentor resolves, the mentee does not, the answer is 404.
C6_Witness ==
    /\ result.op = "create_mentorship_request"
    /\ result.code = 404
    /\ ~Unresolved(result.arg)
    /\ Unresolved(result.arg2)
    /\ requests = <<>>

LiveScore(mentor_id, mentee_id) ==
    calculate_compatibility(users[FindById(users, mentor_id)],
                            users[FindById(users, mentee_id)]).score

\* C7: a request is stored with the score of the two profiles as they are at
\* creation, and no later step changes the stored score.
C7_ScoreFrozen ==
    [][ /\ \A i \in 1..Len(requests) :
              /\ i <= Len(requests')
              /\ requests'[i].compatibility_score = requests[i].compatibility_score
        /\ Len(requests') > Len(requests) =>
              LET r == requests'[Len(requests')]
              IN r.compatibility_score = LiveScore(r.mentor_id, r.mentee_id) ]_vars

\* C7 witness: get_mentor_matches has ranked a request's mentor for its mentee
\* with a score that is no longer the one stored on the request.
C7_Witness ==
    /\ MatchesReturned
    /\ \E k \in 1..Len(requests), i \in 1..Len(result.matches) :
          /\ requests[k].mentee_id = result.arg
          /\ requests[k].mentor_id = result.matches[i].mentor.id
          /\ result.matches[i].compatibility_score
                # Round2(requests[k].compatibility_score)

\* C8: accepted and rejected are terminal: once a request has either status,
\* no later step changes its status.
C8_TerminalStatus ==
    [][ \A i \in 1..Len(requests) :
            requests[i].status \in {"accepted", "rejected"}
                => requests'[i].status = requests[i].status ]_vars

\* C9: every stored request has status pending, accepted or rejected.
C9_StatusInDomain ==
    \A i \in 1..Len(requests) : requests[i].status \in {"pending", "accepted", "rejected"}

Occurrences(list, x) == Cardinality({i \in 1..Len(list) : list[i] = x})

ConnectionsOf(docs, id) == docs[FindById(docs, id)].connections

AcceptCompleted ==
    /\ result.op = "respond_to_mentorship_request"
    /\ result.code = 200
    /\ result.status = "accepted"

\* C10: after an acceptance each of the two users holds the other's id exactly
\* once, and accepting a request that is already accepted leaves every user's
\* connections as they are.
C10_ConnectedOnce ==
    /\ [](AcceptCompleted =>
            LET r == requests[FindById(requests, result.arg)]
            IN /\ Occurrences(ConnectionsOf(users, r.mentor_id), r.mentee_id) = 1
               /\ Occurrences(ConnectionsOf(users, r.mentee_id), r.mentor_id) = 1)
    /\ [][ (/\ AcceptCompleted'
            /\ FindById(requests, result'.arg) # 0
            /\ requests[FindById(requests, result'.arg)].status = "accepted")
           => \A i \in 1..Len(users) : users'[i].connections = users[i].connections ]_vars

\* C10 witness: an acceptance between two different users has completed and
\* each holds the other's id.
C10_Witness ==
    /\ AcceptCompleted
    /\ LET r == requests[FindById(requests, result.arg)]
       IN /\ r.mentor_id # r.mentee_id
          /\ ConnectionsOf(users, r.mentor_id) = <<r.mentee_id>>
          /\ ConnectionsOf(users, r.mentee_id) = <<r.mentor_id>>

----------------------------------------------------------------------------
(* SpecQuestions: the question cache of two companies while the clock runs  *)

Companies == {"Acme", "Globex"}

\* Generated lists: short of 5, exactly 5, more than 5, empty, one with an
\* incomplete element, one with a title twice
GroqOutcomes ==
    { NoList,
      GroqList(<<>>),
      GroqList(Take(get_fallback_questions, 3)),
      GroqList(get_fallback_questions
               \o <<QData("Climbing Stairs", "Array", <<TestCase(<<"a">>, <<"3">>)>>, TRUE)>>),
      GroqList(<<get_fallback_questions[1],
                 QData("Word Break", "Array", <<>>, FALSE),
                 get_fallback_questions[2]>>),
      GroqList(<<get_fallback_questions[1], get_fallback_questions[1]>>) }

QuestionsGet ==
    /\ uuids + 5 <= MaxUuids
    /\ \E company \in Companies, force_refresh \in BOOLEAN, groq \in GroqOutcomes :
          get_company_questions(company, 1, force_refresh, groq)

\* Time passes
QuestionsTick ==
    /\ now < MaxTime
    /\ now' = now + 1
    /\ UNCHANGED <<users, requests, result, coding_questions, interview_prep_profiles,
                   code_submissions, uuids, liveVars>>

QuestionsNext ==
    \/ QuestionsGet
    \/ QuestionsTick

SpecQuestions == Init /\ [][QuestionsNext]_vars

----------------------------------------------------------------------------
(* SpecGrade: one submission for a stored question with one test case, over *)
(* the expected outputs and the executor outcomes of a small alphabet       *)

GradeChars == {" ", "\n", "[", "1"}

\* Every string of at most MaxStr characters, and the strings of the examples
GradeStrings ==
    UNION {[1..k -> GradeChars] : k \in 0..MaxStr}
    \cup { <<"[", "1", ",", " ", "2", "]">>, <<"[", "1", ",", "2", "]">>,
           <<" ", "5", "\n">>, <<"5">>, <<"6">> }

\* The store after get_company_questions saved a generated list of one question
GradeInit ==
    /\ users = <<>>
    /\ requests = <<>>
    /\ result = NoResponse
    /\ \E expected_output \in GradeStrings :
          coding_questions =
              StoredQuestions(NewQuestions(
                  <<QData("Echo", "Array", <<TestCase(<<"1">>, expected_output)>>, TRUE)>>,
                  "Acme", 0, Day))
    /\ interview_prep_profiles = <<>>
    /\ code_submissions = <<>>
    /\ uuids = 1
    /\ now = Day
    /\ LiveInit

\* With the key: what happens to the one request.  Without it no request is
\* made.
GradeRuns ==
    {<<JudgeAnswers(3, stdout, stderr)>> :
        stdout \in {None} \cup {Some(x) : x \in GradeStrings},
        stderr \in {None, Some(""), Some("Traceback")}}
    \cup {<<JudgeRaises(message)>> : message \in {"", "ConnectError"}}

GradeExecutions ==
    {[has_key |-> TRUE, runs |-> runs] : runs \in GradeRuns}
    \cup {[has_key |-> FALSE, runs |-> <<>>]}

GradeSubmit ==
    /\ code_submissions = <<>>
    /\ \E execution \in GradeExecutions :
          submit_code_solution(1, 1, execution.has_key, execution.runs)

GradeNext == GradeSubmit

SpecGrade == GradeInit /\ [][GradeNext]_vars

----------------------------------------------------------------------------
(* SpecSubmit: two students submit solutions for a generated batch          *)

\* The generated list of SpecSubmit: two test cases, one test case whose
\* expected output is empty, and a second question of the first category
SubmitBatch ==
    << QData("Two Sum", "Array",
             <<TestCase(<<"a">>, <<"[", "0", ",", "1", "]">>),
               TestCase(<<"b">>, <<"7">>)>>, TRUE),
       QData("Silent", "Stack", <<TestCase(<<"a">>, <<>>)>>, TRUE),
       QData("Three Sum", "Array", <<TestCase(<<"a">>, <<"7">>)>>, TRUE) >>

\* What can happen to the request for a test case: the expected output under
\* a status other than Accepted, the expected output with text on stderr
\* under status Accepted, an exception without a message (a timeout), an
\* exception with one
RunOutcomes(test_case) ==
    { JudgeAnswers(4, Some(test_case.expected_output \o <<"\n">>), None),
      JudgeAnswers(3, Some(test_case.expected_output), Some("Traceback")),
      JudgeRaises(""),
      JudgeRaises("ConnectError") }

\* One outcome per test case
RECURSIVE RunsFor(_)
RunsFor(test_cases) ==
    IF test_cases = <<>> THEN {<<>>}
    ELSE {<<first>> \o rest : first \in RunOutcomes(Head(test_cases)),
                             rest \in RunsFor(Tail(test_cases))}

SubmitExecutions(test_cases) ==
    {[has_key |-> TRUE, runs |-> runs] : runs \in RunsFor(test_cases)}
    \cup {[has_key |-> FALSE, runs |-> <<>>]}

Students == {1, 2}

SubmitGetQuestions ==
    /\ coding_questions = <<>>
    /\ get_company_questions("Acme", 1, FALSE, GroqList(SubmitBatch))

SubmitCode ==
    /\ Len(code_submissions) < MaxSubmissions
    /\ \E student_id \in Students, question_id \in 1..(Len(SubmitBatch) + 1) :
          \E execution \in SubmitExecutions(
                 IF FindById(coding_questions, question_id) = 0 THEN <<>>
                 ELSE coding_questions[FindById(coding_questions, question_id)].test_cases) :
              submit_code_solution(student_id, question_id, execution.has_key, execution.runs)

SubmitNext ==
    \/ SubmitGetQuestions
    \/ SubmitCode

SpecSubmit == Init /\ [][SubmitNext]_vars

----------------------------------------------------------------------------
(* SpecReadiness: one student works through batch after batch               *)

\* The student's profile in a list of profiles, the empty profile if none
ProfileOf(docs, student_id) ==
    IF FindByStudent(docs, student_id) = 0 THEN InterviewPrepProfile(student_id)
    ELSE docs[FindByStudent(docs, student_id)]

\* The ids of the stored questions student 1 has not solved
Pending ==
    {coding_questions[i].id : i \in 1..Len(coding_questions)}
        \ SetOf(ProfileOf(interview_prep_profiles, 1).solved_questions)

\* The next batch, asked for with force_refresh when nothing is pending; the
\* Groq call gives no list and the generator falls back to its five questions
ReadinessGetQuestions ==
    /\ Pending = {}
    /\ uuids + Len(get_fallback_questions) <= MaxSolvedIds
    /\ get_company_questions("Acme", 1, TRUE, NoList)

\* The first pending question is submitted: the mock executor passes it, or
\* every request to Judge0 raises
ReadinessSubmit ==
    /\ Pending # {}
    /\ \E question_id \in Pending :
          /\ \A other \in Pending : question_id <= other
          /\ \/ submit_code_solution(1, question_id, FALSE, <<>>)
             \/ /\ Cardinality({i \in 1..Len(code_submissions) :
                                code_submissions[i].status = "wrong_answer"}) < MaxFailed
                /\ submit_code_solution(
                       1, question_id, TRUE,
                       [i \in 1..Len(coding_questions[FindById(coding_questions,
                                                              question_id)].test_cases)
                           |-> JudgeRaises("ConnectError")])

ReadinessNext ==
    \/ ReadinessGetQuestions
    \/ ReadinessSubmit

SpecReadiness == Init /\ [][ReadinessNext]_vars

----------------------------------------------------------------------------
(* SpecCompany: a student with target companies fetches, submits and asks   *)
(* for the readiness report                                                 *)

TargetLists == {<<>>, <<"Acme">>, <<"Acme", "Globex">>}

CompanyCreateUser ==
    /\ users = <<>>
    /\ create_user(1, "student")
    /\ UNCHANGED <<prepVars, liveVars>>

\* Also before the user exists: then only the profile is written
CompanySetCompanies ==
    \E companies \in TargetLists : set_target_companies(1, companies)

CompanyGetQuestions ==
    /\ uuids + Len(SubmitBatch) <= MaxCompanyIds
    /\ \E company \in Companies :
          get_company_questions(company, 1, FALSE, GroqList(SubmitBatch))

CompanySubmit ==
    /\ Len(code_submissions) < MaxSubmissions
    /\ \E question \in SetOf(coding_questions) :
          \/ submit_code_solution(1, question.id, FALSE, <<>>)
          \/ submit_code_solution(1, question.id, TRUE,
                                  [i \in 1..Len(question.test_cases) |->
                                      JudgeRaises("ConnectError")])

CompanyGetReadiness == get_company_readiness(1)

CompanyNext ==
    \/ CompanyCreateUser
    \/ CompanySetCompanies
    \/ CompanyGetQuestions
    \/ CompanySubmit
    \/ CompanyGetReadiness

SpecCompany == Init /\ [][CompanyNext]_vars

----------------------------------------------------------------------------
(* SpecChat: the clients of one room connect, talk and leave, their         *)
(* coroutines interleaved at the awaits                                     *)

ChatConnect ==
    /\ \E c \in Clients, origin_allowed \in BOOLEAN : websocket_chat_connect(c, origin_allowed)
    /\ UNCHANGED <<users, requests, result, prepVars, tasks>>

ChatClose ==
    /\ \E c \in Clients : client_close(c)
    /\ UNCHANGED <<users, requests, result, prepVars, tasks>>

ChatReceive ==
    /\ \E c \in Clients : websocket_chat_receive(c)
    /\ UNCHANGED <<users, requests, result, prepVars, tasks>>

ChatBroadcast ==
    /\ \E c \in Clients : websocket_chat_broadcast(c)
    /\ UNCHANGED <<users, requests, result, prepVars, tasks>>

ChatSent ==
    /\ \E c \in Clients : websocket_chat_sent(c)
    /\ UNCHANGED <<users, requests, result, prepVars, tasks>>

ChatDisconnect ==
    /\ \E c \in Clients : websocket_chat_disconnect(c)
    /\ UNCHANGED <<users, requests, result, prepVars, tasks>>

ChatNext ==
    \/ ChatConnect
    \/ ChatClose
    \/ ChatReceive
    \/ ChatBroadcast
    \/ ChatSent
    \/ ChatDisconnect

SpecChat == Init /\ [][ChatNext]_vars

----------------------------------------------------------------------------
(* SpecFetch: calls of get_company_questions for one company overlap        *)

FetchLookup ==
    /\ uuids + Len(get_fallback_questions) * (Len(tasks) + 1) <= MaxRaceIds
    /\ \E force_refresh \in BOOLEAN, groq \in {NoList, GroqList(<<>>)} :
          get_company_questions_lookup("Acme", force_refresh, groq)

FetchDelete == \E k \in 1..Len(tasks) : get_company_questions_delete(k)

FetchInsert == \E k \in 1..Len(tasks) : get_company_questions_insert(k)

FetchNext ==
    \/ FetchLookup
    \/ FetchDelete
    \/ FetchInsert

SpecFetch == Init /\ [][FetchNext]_vars

----------------------------------------------------------------------------
(* SpecRace: submissions of one student overlap                             *)

RaceGetQuestions ==
    /\ coding_questions = <<>>
    /\ get_company_questions("Acme", 1, FALSE, GroqList(SubmitBatch))

RaceGrade ==
    /\ Len(code_submissions) < MaxSubmissions
    /\ \E question \in SetOf(coding_questions) :
          \/ submit_code_solution_grade(1, question.id, FALSE, <<>>)
          \/ submit_code_solution_grade(1, question.id, TRUE,
                                        [i \in 1..Len(question.test_cases) |->
                                            JudgeRaises("ConnectError")])

RaceUpdate == \E k \in 1..Len(tasks) : submit_code_solution_update(k)

RaceRead == \E k \in 1..Len(tasks) : submit_code_solution_read(k)

RaceWrite == \E k \in 1..Len(tasks) : submit_code_solution_write(k)

RaceNext ==
    \/ RaceGetQuestions
    \/ RaceGrade
    \/ RaceUpdate
    \/ RaceRead
    \/ RaceWrite

SpecRace == Init /\ [][RaceNext]_vars

----------------------------------------------------------------------------
(* SpecFlood: calls of get_company_questions for a target company overlap,  *)
(* every one deleting before any inserts; the student then solves what is   *)
(* stored, question after question                                          *)

FloodCreateUser ==
    /\ users = <<>>
    /\ create_user(1, "student")
    /\ UNCHANGED <<prepVars, liveVars>>

FloodSetCompanies ==
    /\ users # <<>>
    /\ users[1].target_companies = <<>>
    /\ set_target_companies(1, <<"Acme">>)

FloodLookup ==
    /\ users # <<>>
    /\ users[1].target_companies # <<>>
    /\ Len(tasks) < MaxCalls
    /\ uuids = 0
    /\ \A k \in 1..Len(tasks) : tasks[k].pc = "delete"
    /\ get_company_questions_lookup("Acme", FALSE, NoList)

FloodDelete ==
    \E k \in 1..Len(tasks) :
        /\ \A earlier \in 1..(k - 1) : tasks[earlier].pc = "insert"
        /\ get_company_questions_delete(k)

FloodInsert ==
    /\ \A k \in 1..Len(tasks) : tasks[k].pc = "insert"
    /\ tasks # <<>>
    /\ get_company_questions_insert(1)

FloodSubmit ==
    /\ tasks = <<>>
    /\ \E question_id \in Pending :
          /\ \A other \in Pending : question_id <= other
          /\ submit_code_solution(1, question_id, FALSE, <<>>)

FloodGetReadiness ==
    /\ tasks = <<>>
    /\ get_company_readiness(1)

FloodNext ==
    \/ FloodCreateUser
    \/ FloodSetCompanies
    \/ FloodLookup
    \/ FloodDelete
    \/ FloodInsert
    \/ FloodSubmit
    \/ FloodGetReadiness

SpecFlood == Init /\ [][FloodNext]_vars

RejectCompleted ==
    /\ result.op = "respond_to_mentorship_request"
    /\ result.code = 200
    /\ result.status = "rejected"

\* C11: a respond with status rejected changes nothing but the status of that
\* request: every user document, every other request and every other field of
\* the request stay as they are.
C11_RejectOnlyStatus ==
    [][ RejectCompleted' =>
          /\ users' = users
          /\ Len(requests') = Len(requests)
          /\ \A i \in 1..Len(requests) :
                IF requests[i].id = result'.arg
                THEN requests'[i] = [requests[i] EXCEPT !.status = "rejected"]
                ELSE requests'[i] = requests[i] ]_vars

\* C11 witness: a request between two different users, stored with a non-zero
\* score, has been rejected and neither user has a connection.
C11_Witness ==
    /\ RejectCompleted
    /\ LET r == requests[FindById(requests, result.arg)]
       IN /\ r.status = "rejected"
          /\ r.mentor_id # r.mentee_id
          /\ r.compatibility_score > 0
          /\ ConnectionsOf(users, r.mentor_id) = <<>>
          /\ ConnectionsOf(users, r.mentee_id) = <<>>

----------------------------------------------------------------------------
(* Properties of the question cache *)

QuestionsCalled == result.op = "get_company_questions"

\* A step of get_company_questions: it leaves the response of the call, and
\* the clock does not move within it
QuestionsStep == QuestionsCalled' /\ now' = now

\* The positions of the stored questions tagged with the company
TaggedWith(docs, company) ==
    {i \in 1..Len(docs) : company \in SetOf(docs[i].companies)}

\* Among them, those whose created_at is the timestamp of a time in the last
\* 24 hours
RecentAt(docs, company, t) ==
    {i \in TaggedWith(docs, company) :
        \E c \in (t - Day)..t : docs[i].created_at = IsoFormat(c)}

RECURSIVE KthSmallest(_, _)
KthSmallest(S, k) ==
    LET least == CHOOSE i \in S : \A j \in S : i <= j
    IN IF k = 1 THEN least ELSE KthSmallest(S \ {least}, k - 1)

\* The documents at the positions S, in store order
DocsAt(docs, S) == [k \in 1..Cardinality(S) |-> docs[KthSmallest(S, k)]]

\* C12: without force_refresh the answer is cached exactly when at least 5
\* stored questions of the company were created in the last 24 hours; a hit
\* returns the first 5 of them, does not invoke the generator and leaves the
\* store as it is; otherwise the generator is invoked.
C12_CacheHitIffFresh ==
    [][ (QuestionsStep /\ ~result'.force_refresh) =>
          LET recent == RecentAt(coding_questions, result'.arg, now)
          IN /\ result'.cached <=> Cardinality(recent) >= 5
             /\ result'.cached =>
                   /\ result'.code = 200
                   /\ result'.questions = Take(DocsAt(coding_questions, recent), 5)
                   /\ IsNone(result'.generated)
                   /\ coding_questions' = coding_questions
             /\ ~result'.cached => ~IsNone(result'.generated) ]_vars

\* C12 witness: a cache hit on a batch created exactly 24 hours ago, at a time
\* with a fraction of a second.
C12_Witness ==
    /\ QuestionsCalled
    /\ result.cached
    /\ now % 2 = 1
    /\ \A k \in 1..5 : result.questions[k].created_at = IsoFormat(now - Day)

\* C13: after a regeneration that succeeds the questions of the company are
\* exactly the returned batch, each tagged with the company alone; none of
\* its earlier questions is left, the questions of other companies are as they
\* were, and the answer is not cached.
C13_RegenerateReplaces ==
    [][ (QuestionsStep /\ result'.code = 200 /\ ~IsNone(result'.generated)) =>
          LET company == result'.arg
              others == (1..Len(coding_questions)) \ TaggedWith(coding_questions, company)
              others_after ==
                  (1..Len(coding_questions')) \ TaggedWith(coding_questions', company)
          IN /\ ~result'.cached
             /\ DocsAt(coding_questions', TaggedWith(coding_questions', company))
                   = result'.questions
             /\ \A k \in 1..Len(result'.questions) :
                   result'.questions[k].companies = <<company>>
             /\ \A i \in TaggedWith(coding_questions, company) :
                   \A j \in 1..Len(coding_questions') :
                       coding_questions'[j].id # coding_questions[i].id
             /\ DocsAt(coding_questions', others_after) = DocsAt(coding_questions, others) ]_vars

\* C13 witness: a forced regeneration has replaced earlier questions of the
\* company (the ids between the other company's first batch and the new batch
\* are gone) while the other company's questions are in the store.
C13_Witness ==
    /\ QuestionsCalled
    /\ result.code = 200
    /\ result.force_refresh
    /\ LET others == (1..Len(coding_questions)) \ TaggedWith(coding_questions, result.arg)
       IN /\ \E i \in others : coding_questions[i].id = 1
          /\ result.questions[1].id > Cardinality(others) + 1

\* C14: when the generator returns nothing the call fails and the store is
\* unchanged: the company's cached questions stay and nothing is inserted.
C14_EmptyGenerationKeepsStore ==
    [][ (QuestionsStep /\ result'.generated = Some(0)) =>
          (result'.code = 500 /\ coding_questions' = coding_questions) ]_vars

\* C14 witness: the generator returned an empty list while questions of the
\* company were stored; they are still there.
C14_Witness ==
    /\ QuestionsCalled
    /\ result.generated = Some(0)
    /\ result.code = 500
    /\ TaggedWith(coding_questions, result.arg) # {}

\* C15: every successful get_company_questions returns exactly 5 questions.
C15_AlwaysFive ==
    (QuestionsCalled /\ result.code = 200) => Len(result.questions) = 5

----------------------------------------------------------------------------
(* Properties of grading *)

Submitted == result.op = "submit_code_solution" /\ result.code = 200

\* Trimmed and, for two array-like strings, space-free: written on positions
Trimmed(s) ==
    LET kept == {i \in 1..Len(s) : s[i] \notin Whitespace}
    IN IF kept = {} THEN <<>>
       ELSE SubSeq(s, CHOOSE i \in kept : \A j \in kept : i <= j,
                      CHOOSE i \in kept : \A j \in kept : i >= j)

WithoutSpaces(s) == DocsAt(s, {i \in 1..Len(s) : s[i] # " "})

NormalizedEqual(output, expected) ==
    LET o == Trimmed(output)
        e == Trimmed(expected)
    IN IF Len(o) > 0 /\ Len(e) > 0 /\ o[1] = "[" /\ e[1] = "["
       THEN WithoutSpaces(o) = WithoutSpaces(e)
       ELSE o = e

NoError(test) == test.error \in {None, Some("")}

\* C16: a test is passed exactly when the executor reported no error for it
\* and output and expected output are equal after trimming and, for two
\* strings starting with "[", after removing every space.
C16_VerdictNormalized ==
    Submitted =>
        \A i \in 1..Len(result.test_results) :
            LET test == result.test_results[i]
            IN test.passed <=>
                  (NoError(test) /\ NormalizedEqual(test.output, test.test_case.expected_output))

\* C16 witness: output "[1, 2]" against expected "[1,2]" with a null stderr
\* has passed.
C16_Witness ==
    /\ Submitted
    /\ Len(result.test_results) = 1
    /\ result.test_results[1].output = <<"[", "1", ",", " ", "2", "]">>
    /\ result.test_results[1].test_case.expected_output = <<"[", "1", ",", "2", "]">>
    /\ result.test_results[1].error = None
    /\ result.test_results[1].passed

----------------------------------------------------------------------------
(* Submission status, failure isolation and the profile update (SpecSubmit) *)

AllPassed(test_results) == \A i \in 1..Len(test_results) : test_results[i].passed

StatusOf(test_results) == IF AllPassed(test_results) THEN "accepted" ELSE "wrong_answer"

\* C17: every stored submission and every submit response has the status
\* "accepted" exactly when each of its verdicts is passed and "wrong_answer"
\* otherwise, and the response reports the status that was stored.
C17_StatusIffAllPassed ==
    /\ \A i \in 1..Len(code_submissions) :
          code_submissions[i].status = StatusOf(code_submissions[i].test_results)
    /\ Submitted =>
          /\ result.status = StatusOf(result.test_results)
          /\ code_submissions # <<>>
          /\ code_submissions[Len(code_submissions)].status = result.status
          /\ code_submissions[Len(code_submissions)].test_results = result.test_results

\* C17 witness: one of two verdicts passed, stored and answered as
\* wrong_answer; an earlier submission is stored as accepted although Judge0
\* gave its run a status other than Accepted.
C17_Witness ==
    /\ Submitted
    /\ result.total = 2
    /\ result.passed = 1
    /\ result.status = "wrong_answer"
    /\ Len(code_submissions) = 2
    /\ code_submissions[1].status = "accepted"
    /\ code_submissions[1].test_results # <<>>

\* The question a submit response is about
SubmittedQuestion == coding_questions[FindById(coding_questions, result.arg2)]

Populated(error) == ~IsNone(error) /\ Get(error) # ""

\* C18: grading yields one verdict per test case of the question, in the
\* question's order, and a test whose request raised has passed = false and
\* a populated error.
C18_FailureIsolated ==
    Submitted =>
        /\ Len(result.test_results) = Len(SubmittedQuestion.test_cases)
        /\ \A i \in 1..Len(result.test_results) :
              /\ result.test_results[i].test_case = SubmittedQuestion.test_cases[i]
              /\ (result.has_key /\ result.runs[i].raised) =>
                     /\ ~result.test_results[i].passed
                     /\ Populated(result.test_results[i].error)

\* The part of C18 about the number and order of the verdicts alone
C18_OneVerdictPerTest ==
    Submitted =>
        /\ Len(result.test_results) = Len(SubmittedQuestion.test_cases)
        /\ \A i \in 1..Len(result.test_results) :
              result.test_results[i].test_case = SubmittedQuestion.test_cases[i]

\* A submit step that was answered with 200
SubmitStep ==
    /\ Len(code_submissions') = Len(code_submissions) + 1
    /\ result'.op = "submit_code_solution"
    /\ result'.code = 200

NoDuplicates(list) == Cardinality(SetOf(list)) = Len(list)

\* C19: a submit step leaves exactly one profile of the student; its
\* attempted_questions gained the question id; after a pass solved_questions
\* gained the id, strong_topics gained the category and weak_topics lost it,
\* failed_questions being as before; after a failure failed_questions gained
\* the id and weak_topics the category, solved_questions and strong_topics
\* being as before; target_companies and the other profiles are as before.
C19_ProfileUpsert ==
    [][SubmitStep =>
        LET student_id == result'.arg
            question == coding_questions[FindById(coding_questions, result'.arg2)]
            before == ProfileOf(interview_prep_profiles, student_id)
            after == ProfileOf(interview_prep_profiles', student_id)
        IN /\ Cardinality({i \in 1..Len(interview_prep_profiles') :
                              interview_prep_profiles'[i].student_id = student_id}) = 1
           /\ \A other \in Students \ {student_id} :
                 ProfileOf(interview_prep_profiles', other)
                     = ProfileOf(interview_prep_profiles, other)
           /\ Len(interview_prep_profiles') =
                 Len(interview_prep_profiles)
                     + (IF FindByStudent(interview_prep_profiles, student_id) = 0
                        THEN 1 ELSE 0)
           /\ after.target_companies = before.target_companies
           /\ SetOf(after.attempted_questions)
                 = SetOf(before.attempted_questions) \cup {question.id}
           /\ \A field \in {"attempted_questions", "solved_questions", "failed_questions",
                            "strong_topics", "weak_topics"} :
                 NoDuplicates(after[field])
           /\ IF AllPassed(result'.test_results)
              THEN /\ SetOf(after.solved_questions)
                         = SetOf(before.solved_questions) \cup {question.id}
                   /\ SetOf(after.strong_topics)
                         = SetOf(before.strong_topics) \cup {question.category}
                   /\ SetOf(after.weak_topics)
                         = SetOf(before.weak_topics) \ {question.category}
                   /\ after.failed_questions = before.failed_questions
              ELSE /\ SetOf(after.failed_questions)
                         = SetOf(before.failed_questions) \cup {question.id}
                   /\ SetOf(after.weak_topics)
                         = SetOf(before.weak_topics) \cup {question.category}
                   /\ after.solved_questions = before.solved_questions
                   /\ after.strong_topics = before.strong_topics
    ]_vars

\* C19 witness: student 2, without a profile until the first submission,
\* failed a question and then passed it: the category went from weak_topics
\* to strong_topics, and the id is in failed_questions and solved_questions.
C19_Witness ==
    /\ Submitted
    /\ result.arg = 2
    /\ AllPassed(result.test_results)
    /\ Len(interview_prep_profiles) = 1
    /\ interview_prep_profiles[1].student_id = 2
    /\ interview_prep_profiles[1].failed_questions = <<result.arg2>>
    /\ interview_prep_profiles[1].solved_questions = <<result.arg2>>
    /\ interview_prep_profiles[1].weak_topics = <<>>
    /\ interview_prep_profiles[1].strong_topics = <<SubmittedQuestion.category>>

----------------------------------------------------------------------------
(* Readiness score (SpecReadiness) *)

----------------------------------------------------------------------------
(* Idempotence of a repeated pass (SpecSubmit) *)

\* C21: an all-pass submit for a question already in the student's
\* solved_questions leaves solved_questions as it was, the id in it exactly
\* once, and leaves the stored readiness_score as it was.
C21_ResubmitIdempotent ==
    [][(/\ SubmitStep
        /\ AllPassed(result'.test_results)
        /\ result'.arg2 \in SetOf(ProfileOf(interview_prep_profiles,
                                            result'.arg).solved_questions)) =>
        LET before == ProfileOf(interview_prep_profiles, result'.arg)
            after == ProfileOf(interview_prep_profiles', result'.arg)
        IN /\ after.solved_questions = before.solved_questions
           /\ Cardinality({i \in 1..Len(after.solved_questions) :
                              after.solved_questions[i] = result'.arg2}) = 1
           /\ after.readiness_score = before.readiness_score
           /\ result'.readiness_score = before.readiness_score
    ]_vars

\* C21 witness: the same student passed the same question twice; it is in
\* solved_questions once and the score is that of one solved question.
C21_Witness ==
    /\ Submitted
    /\ Len(code_submissions) = 2
    /\ code_submissions[1].student_id = code_submissions[2].student_id
    /\ code_submissions[1].question_id = code_submissions[2].question_id
    /\ code_submissions[1].status = "accepted"
    /\ code_submissions[2].status = "accepted"
    /\ ProfileOf(interview_prep_profiles, result.arg).solved_questions = <<result.arg2>>
    /\ ProfileOf(interview_prep_profiles, result.arg).readiness_score = 2 * Unit

----------------------------------------------------------------------------
(* The company readiness report (SpecCompany) *)

\* questions_solved of the student's report for a company, in a state
ReportedSolved(docs, questions, profiles, student_id, company) ==
    LET report == ReadinessReport(docs, questions, profiles, student_id).readiness
    IN IF \E k \in 1..Len(report) : report[k].company = company
       THEN report[CHOOSE k \in 1..Len(report) : report[k].company = company]
                .questions_solved
       ELSE 0

\* C22: for a student and a company that is a target company before and
\* after a step, the questions_solved of the readiness report does not
\* decrease in the step.
C22_SolvedCountMonotone ==
    [][\A student_id \in Students, company \in Companies :
          (/\ FindById(users, student_id) # 0
           /\ company \in SetOf(users[FindById(users, student_id)].target_companies)
           /\ company \in SetOf(users'[FindById(users', student_id)].target_companies))
          => ReportedSolved(users', coding_questions', interview_prep_profiles',
                            student_id, company)
               >= ReportedSolved(users, coding_questions, interview_prep_profiles,
                                 student_id, company)
    ]_vars

\* C29: in every profile the attempted ids are the solved ids together with
\* the failed ids.
C29_AttemptedIsSolvedOrFailed ==
    \A i \in 1..Len(interview_prep_profiles) :
        SetOf(interview_prep_profiles[i].attempted_questions)
            = SetOf(interview_prep_profiles[i].solved_questions)
                \cup SetOf(interview_prep_profiles[i].failed_questions)

\* C29 witness: a profile that set_target_companies has written to, with one
\* question solved and another failed, both attempted.
C29_Witness ==
    /\ Len(interview_prep_profiles) = 1
    /\ interview_prep_profiles[1].target_companies # <<>>
    /\ Len(interview_prep_profiles[1].solved_questions) = 1
    /\ Len(interview_prep_profiles[1].failed_questions) = 1
    /\ interview_prep_profiles[1].solved_questions
          # interview_prep_profiles[1].failed_questions
    /\ Len(interview_prep_profiles[1].attempted_questions) = 2

----------------------------------------------------------------------------
(* The question lists only grow (SpecSubmit) *)

IsPrefix(a, b) == Len(a) <= Len(b) /\ SubSeq(b, 1, Len(a)) = a

\* C25: in every step each student's solved_questions, failed_questions and
\* attempted_questions keep what they held, in place; ids are only appended.
C25_ListsOnlyGrow ==
    [][\A student_id \in Students :
          \A field \in {"solved_questions", "failed_questions", "attempted_questions"} :
              IsPrefix(ProfileOf(interview_prep_profiles, student_id)[field],
                       ProfileOf(interview_prep_profiles', student_id)[field])
    ]_vars

\* C25 witness: a question that was solved and then failed is in
\* solved_questions and in failed_questions.
C25_Witness ==
    /\ Submitted
    /\ Len(code_submissions) = 2
    /\ code_submissions[1].status = "accepted"
    /\ code_submissions[2].status = "wrong_answer"
    /\ code_submissions[1].student_id = code_submissions[2].student_id
    /\ code_submissions[1].question_id = code_submissions[2].question_id
    /\ ProfileOf(interview_prep_profiles, result.arg).solved_questions = <<result.arg2>>
    /\ ProfileOf(interview_prep_profiles, result.arg).failed_questions = <<result.arg2>>

----------------------------------------------------------------------------
(* Ties in the ranking (SpecRank) *)

\* The mentors get_mentor_matches fetched for the last call, in fetch order,
\* and the rounded score of the k-th of them
Fetched == Take(EligibleMentors(users, result.arg), FetchLimit)

FetchedScore(k) ==
    Round2(calculate_compatibility(Fetched[k], users[FindById(users, result.arg)]).score)

\* The place in the fetch of the i-th returned mentor
FetchIndex(i) == FindById(Fetched, result.matches[i].mentor.id)

\* C24: returned mentors of equal score are in fetch order, and a fetched
\* mentor that was cut comes, in fetch order, after every returned mentor of
\* the same score.
C24_TiesInFetchOrder ==
    MatchesReturned =>
        /\ \A i \in 1..Len(result.matches) : FetchIndex(i) # 0
        /\ \A i \in 1..Len(result.matches), j \in 1..Len(result.matches) :
              (/\ i < j
               /\ result.matches[i].compatibility_score
                     = result.matches[j].compatibility_score)
              => FetchIndex(i) < FetchIndex(j)
        /\ \A k \in 1..Len(Fetched) :
              (\A i \in 1..Len(result.matches) : FetchIndex(i) # k)
              => \A i \in 1..Len(result.matches) :
                    result.matches[i].compatibility_score = FetchedScore(k)
                    => FetchIndex(i) < k

\* C24 witness: six mentors were fetched, the fifth returned and the one cut
\* have the same score, and two returned mentors of equal score follow one
\* that was fetched after them.
C24_Witness ==
    /\ MatchesReturned
    /\ Len(Fetched) = 6
    /\ Len(result.matches) = 5
    /\ \E k \in 1..6 :
          /\ \A i \in 1..5 : FetchIndex(i) # k
          /\ FetchedScore(k) = result.matches[5].compatibility_score
    /\ \E i \in 1..5, j \in 1..5 :
          /\ i < j
          /\ result.matches[i].compatibility_score = result.matches[j].compatibility_score
    /\ \E i \in 1..5, j \in 1..5 : i < j /\ FetchIndex(i) > FetchIndex(j)

----------------------------------------------------------------------------
(* Connections and accepted requests (Spec) *)

\* Some stored request between the two users has the status accepted
AcceptedBetween(a, b) ==
    \E i \in 1..Len(requests) :
        /\ requests[i].status = "accepted"
        /\ \/ requests[i].mentor_id = a /\ requests[i].mentee_id = b
           \/ requests[i].mentor_id = b /\ requests[i].mentee_id = a

\* C28: a user is in another user's connections only if a request between
\* the two has the status accepted.
C28_ConnectedOnlyIfAccepted ==
    \A i \in 1..Len(users) :
        \A other \in SetOf(users[i].connections) : AcceptedBetween(users[i].id, other)

----------------------------------------------------------------------------
(* The room list of the chat relay (SpecChat) *)

\* The client's connection was accepted, its coroutine has not exited, and
\* the client has not closed the socket
Live(c) == handlers[c].pc \in {"receive", "insert", "send"} /\ handlers[c].open

\* C30: every live client is in connected_clients[room_id].
C30_LiveClientsListed ==
    \A c \in Clients : Live(c) => c \in SetOf(RoomList)

----------------------------------------------------------------------------
(* Overlapping calls (SpecFetch, SpecRace) *)

\* C26: while no call of get_company_questions is suspended, the stored
\* questions tagged with a company are those of one batch: at most 5.
C26_SingleBatchAtRest ==
    tasks = <<>> =>
        \A company \in Companies : Len(FindByCompany(coding_questions, company)) <= 5

\* C27: while no call of submit_code_solution is suspended, every stored
\* profile has the readiness_score min(2 * |solved_questions|, 100).
C27_ScoreMatchesSolvedAtRest ==
    tasks = <<>> =>
        \A i \in 1..Len(interview_prep_profiles) :
            interview_prep_profiles[i].readiness_score
                = Min(2 * Len(interview_prep_profiles[i].solved_questions), 100) * Unit

----------------------------------------------------------------------------
(* The percentage of the company readiness report (SpecFlood) *)

\* C23: every entry of a readiness report has the readiness_percentage
\* min(2 * questions_solved, 100), which is at most 100, and 0 for a company
\* without stored questions.
C23_PercentageCapped ==
    (result.op = "get_company_readiness" /\ result.code = 200) =>
        \A k \in 1..Len(result.readiness) :
            /\ result.readiness[k].readiness_percentage
                  = Min(2 * result.readiness[k].questions_solved, 100) * Unit
            /\ result.readiness[k].readiness_percentage <= 100 * Unit
            /\ FindByCompany(coding_questions, result.readiness[k].company) = <<>>
                  => result.readiness[k].readiness_percentage = 0
====
